---- MODULE Spec2Model ----
(***************************************************************************)
(* Model of the mine_sweeperr library: the CSP deduction engine            *)
(* (solver/csp: Board, Constraint, SolutionSet, CSPSolver), the board      *)
(* generator (implementations/ms_matrix.rs, ms_hash.rs), the parameter     *)
(* check (macros.rs), the calls of a game on both board implementations    *)
(* (open, toggle_flag, get_game_state) and MSMatrix::swap_cells.           *)
(*                                                                         *)
(* Cells are flattened indices i = r * width + c, as in the test data of   *)
(* the repository; a coordinate (r, c) is (i \div w, i % w).               *)
(***************************************************************************)
EXTENDS Integers, Sequences, FiniteSets, TLC

VARIABLES
    h,            \* height of the board
    w,            \* width of the board
    content,      \* real board: content[i] = -1 (Mine) or n (Number(n))
    start,        \* start_from, a flattened cell index
    board,        \* the solver's Board (ledger)
    constraints,  \* CSPSolver.constraints
    subsets,      \* the components built by separate_constraints
    en,           \* locals of the running enumerate_solutions
    loc,          \* locals of CSPSolver::solve (remaining, far, far_max)
    pc,           \* position in CSPSolver::solve
    result,       \* value returned by solve ("none" until it returns)
    gen,          \* state of the board generator (from_rng)
    game,         \* a game played on both board implementations
    sim,          \* locals of CSPSolver::simplify_constraints, call by call
    msState       \* the cell states of the game `ms` that Solver::new borrows

vars == <<h, w, content, start, board, constraints, subsets, en, loc, pc, result, gen, game,
          sim, msState>>

---------------------------------------------------------------------------
(* Bounds of the model *)

\* the dense family: every mine layout on a board of at most MaxCells cells
MaxCells == 9
\* the sparse family: at most SparseMines mines on a board of at most
\* SparseCells cells
SparseCells == 12
SparseMines == 2

---------------------------------------------------------------------------
(* board.rs: the sentinels of BoardCell.state *)

UNKNOWN == 0 - 5
CONSTRAINED == 0 - 4
MARKED == 0 - 3
MINE == 0 - 1

\* usize arithmetic wraps modulo 2^64 in a release build; the model's integers
\* are 32 bits wide, so the modulus is 2^16: every quantity of the model is
\* below 2^8 and a wrapped value compares as the 64-bit one does
USIZE == 2^16

---------------------------------------------------------------------------
(* Generic helpers *)

Min2(a, b) == IF a < b THEN a ELSE b
Max2(a, b) == IF a > b THEN a ELSE b

\* the sum of a sequence of numbers, by halves
RECURSIVE SumSeq(_)
SumSeq(s) ==
    IF Len(s) = 0 THEN 0
    ELSE IF Len(s) = 1 THEN s[1]
    ELSE SumSeq(SubSeq(s, 1, Len(s) \div 2)) + SumSeq(SubSeq(s, Len(s) \div 2 + 1, Len(s)))

\* `while cond { body }` on the loop state st, for a loop that makes at most
\* fuel iterations. The iterations are split in three runs, and the state
\* after a run is computed (a = a) before the next run starts from it, which
\* keeps the evaluation shallow
RECURSIVE While(_, _, _, _)
While(Cond(_), Body(_), st, fuel) ==
    IF fuel <= 1 THEN (IF fuel = 1 /\ Cond(st) THEN Body(st) ELSE st)
    ELSE LET q == (fuel + 2) \div 3
             a == While(Cond, Body, st, q)
             b == While(Cond, Body, a, q)
         IN IF a = a /\ b = b THEN While(Cond, Body, b, fuel - 2 * q) ELSE st

SeqSet(s) == {s[k] : k \in 1..Len(s)}

\* Vec::swap_remove(k) (1-based k): the last element takes the place of s[k]
SwapRemove(s, k) ==
    IF k = Len(s) THEN SubSeq(s, 1, Len(s) - 1)
    ELSE SubSeq(s, 1, k - 1) \o <<s[Len(s)]>> \o SubSeq(s, k + 1, Len(s) - 1)

\* Vec::swap(a, b) (1-based)
SwapSeq(s, a, b) == [s EXCEPT ![a] = s[b], ![b] = s[a]]

---------------------------------------------------------------------------
(* utils.rs: iter_neighbors, in iteration order (row-major)                *)

NeighborOffsets == << <<0 - 1, 0 - 1>>, <<0 - 1, 0>>, <<0 - 1, 1>>,
                      <<0, 0 - 1>>, <<0, 1>>,
                      <<1, 0 - 1>>, <<1, 0>>, <<1, 1>> >>

IterNeighbors(i, hh, ww) ==
    LET r == i \div ww
        c == i % ww
        InB(o) == /\ r + o[1] >= 0 /\ r + o[1] < hh
                  /\ c + o[2] >= 0 /\ c + o[2] < ww
        offs == SelectSeq(NeighborOffsets, InB)
    IN [k \in 1..Len(offs) |-> (r + offs[k][1]) * ww + (c + offs[k][2])]

Cells(hh, ww) == 0..(hh * ww - 1)

---------------------------------------------------------------------------
(* implementations/ms_matrix.rs: building the contents of a board *)

\* MSMatrix::increment_neighbors
IncrementNeighbors(cont, i, hh, ww) ==
    LET nb == SeqSet(IterNeighbors(i, hh, ww))
    IN [j \in DOMAIN cont |-> IF j \in nb /\ cont[j] >= 0 THEN cont[j] + 1 ELSE cont[j]]

\* From<(height, width, mines, start_from)> for MSMatrix: every listed mine is
\* set and its neighbours incremented
RECURSIVE PlaceMines(_, _, _, _)
PlaceMines(cont, ms, hh, ww) ==
    IF ms = {} THEN cont
    ELSE LET m == CHOOSE x \in ms : \A y \in ms : x <= y
         IN PlaceMines(IncrementNeighbors([cont EXCEPT ![m] = MINE], m, hh, ww),
                       ms \ {m}, hh, ww)

MatrixFrom(hh, ww, ms) == PlaceMines([i \in Cells(hh, ww) |-> 0], ms, hh, ww)

\* MineSweeper::mines() of such a board
MinesOf(cont) == Cardinality({i \in DOMAIN cont : cont[i] = MINE})

---------------------------------------------------------------------------
(* solver/csp/board.rs: Board *)

\* Board::new: every BoardCell copies the game cell, state UNKNOWN
BoardNew(cont, cellState) ==
    [ st        |-> [i \in DOMAIN cont |-> UNKNOWN],
      cs        |-> cellState,
      bl        |-> [i \in DOMAIN cont |-> 0],
      ta        |-> [i \in DOMAIN cont |-> 0 - 1],
      unknown   |-> Cardinality(DOMAIN cont),
      clear     |-> 0,
      unflagged |-> MinesOf(cont),
      ovf       |-> FALSE ]

\* x -= 1 on a usize: below zero the debug build panics and the release build
\* wraps; ovf records that it happened
DecField(b, f) ==
    IF b[f] = 0 THEN [b EXCEPT ![f] = USIZE - 1, !.ovf = TRUE]
    ELSE [b EXCEPT ![f] = b[f] - 1]

IncField(b, f) ==
    IF b[f] = USIZE - 1 THEN [b EXCEPT ![f] = 0, !.ovf = TRUE]
    ELSE [b EXCEPT ![f] = b[f] + 1]

\* boundary_level += d for every neighbour that is still UNKNOWN
BumpLevels(bl, st, nb, d) ==
    While(LAMBDA t : t.k <= Len(nb),
          LAMBDA t : [bl |-> IF st[nb[t.k]] = UNKNOWN THEN [t.bl EXCEPT ![nb[t.k]] = @ + d]
                             ELSE t.bl,
                      k |-> t.k + 1],
          [bl |-> bl, k |-> 1], Len(nb)).bl

BumpNeighbors(b, i, d, hh, ww) ==
    [b EXCEPT !.bl = BumpLevels(b.bl, b.st, IterNeighbors(i, hh, ww), d)]

\* a faulty set_state: `unknown` goes down whatever the old state was
LeaveAsUnknown(b, old) == DecField(b, "unknown")

\* Board::set_state: the counter of the old state goes down ...
LeaveState(b, old) ==
    CASE old = UNKNOWN -> DecField(b, "unknown")
      [] old \in {CONSTRAINED, MARKED} -> b
      [] OTHER -> DecField(b, "clear")

\* ... and the new state is entered
EnterState(b, i, s, hh, ww) ==
    CASE s = UNKNOWN -> IncField(b, "unknown")
      [] s = CONSTRAINED -> BumpNeighbors([b EXCEPT !.bl[i] = 0], i, 1, hh, ww)
      [] s = MARKED -> BumpNeighbors([b EXCEPT !.bl[i] = 0], i, 0 - 1, hh, ww)
      [] s >= 0 -> IncField([b EXCEPT !.bl[i] = 0], "clear")
      [] OTHER -> [b EXCEPT !.bl[i] = 0]

SetState(b, i, s, hh, ww) ==
    IF b.st[i] = s THEN b
    ELSE EnterState([LeaveState(b, b.st[i]) EXCEPT !.st[i] = s], i, s, hh, ww)

\* a faulty open_cell: the ledger's copy of the cell is not set to Open
OpenCellKeep(b, i, cont) ==
    IF b.cs[i] = "Flagged" THEN <<b, MARKED>>
    ELSE <<b, cont[i]>>

\* Board::open_cell: the pair <<board, returned value>>
OpenCell(b, i, cont) ==
    IF b.cs[i] = "Flagged" THEN <<b, MARKED>>
    ELSE <<[b EXCEPT !.cs[i] = "Open"], cont[i]>>

\* Board::open: the pair <<board, returned value>>
BoardOpen(b, i, cont, hh, ww) ==
    LET oc == OpenCell(b, i, cont)
    IN <<SetState(oc[1], i, oc[2], hh, ww), oc[2]>>

\* Board::flag
BoardFlag(b, i, hh, ww) ==
    SetState(DecField([b EXCEPT !.cs[i] = "Flagged"], "unflagged"), i, MARKED, hh, ww)

\* a faulty done: it only asks that no cell is UNKNOWN
NoneUnknown(b, cont) == b.unknown = 0

\* Board::done
BoardDone(b, cont) ==
    \A i \in DOMAIN cont : ~(b.cs[i] # "Open" /\ cont[i] # MINE)

\* Board::unflagged_mines: usize as isize
AsIsize(x) == IF x >= USIZE \div 2 THEN x - USIZE ELSE x

UnflaggedMines(b) == AsIsize(b.unflagged)

\* a faulty enumerate_unknown: it stops at the first UNKNOWN cell
EnumerateFirstUnknown(b) ==
    LET u == {i \in DOMAIN b.st : b.st[i] = UNKNOWN}
    IN IF u = {} THEN <<>> ELSE << CHOOSE i \in u : \A j \in u : i <= j >>

\* Board::enumerate_unknown, in row-major order
EnumerateUnknown(b) ==
    SelectSeq([k \in 1..Cardinality(DOMAIN b.st) |-> k - 1], LAMBDA i : b.st[i] = UNKNOWN)

\* Constraint::new
ConstraintNew ==
    [ vars |-> <<>>, constant |-> 0, unassigned |-> 0, current_constant |-> 0,
      next_unassigned |-> 0 - 1 ]

\* a faulty new_constraint: a variable is added and its cell left UNKNOWN
NewConstraintLeaveUnknown(s, j, hh, ww) ==
    CASE s.b.st[j] >= 0 -> [s EXCEPT !.k = @ + 1]
      [] s.b.st[j] = MARKED -> [s EXCEPT !.constant = @ - 1, !.k = @ + 1]
      [] OTHER -> [s EXCEPT !.vs = Append(@, j), !.k = @ + 1]

\* a faulty new_constraint: a MARKED neighbour is skipped and the constant kept
NewConstraintKeepConstant(s, j, hh, ww) ==
    CASE s.b.st[j] >= 0 \/ s.b.st[j] = MARKED -> [s EXCEPT !.k = @ + 1]
      [] OTHER -> [s EXCEPT !.b = SetState(s.b, j, CONSTRAINED, hh, ww),
                            !.vs = Append(@, j), !.k = @ + 1]

\* the body of the neighbour loop of Board::new_constraint, for neighbour j;
\* the loop state is [b, k, vs: the variables, constant]
NewConstraintAt(s, j, hh, ww) ==
    CASE s.b.st[j] >= 0 -> [s EXCEPT !.k = @ + 1]
      [] s.b.st[j] = MARKED -> [s EXCEPT !.constant = @ - 1, !.k = @ + 1]
      [] OTHER -> [s EXCEPT !.b = SetState(s.b, j, CONSTRAINED, hh, ww),
                            !.vs = Append(@, j), !.k = @ + 1]

NewConstraintLoop(b, nbs, constant, hh, ww) ==
    While(LAMBDA t : t.k <= Len(nbs),
          LAMBDA t : NewConstraintAt(t, nbs[t.k], hh, ww),
          [b |-> b, k |-> 1, vs |-> <<>>, constant |-> constant], Len(nbs))

\* `constraint.set_constant(constant); Some(..)`, r being what the loop gave
NewConstraintOf(r) ==
    <<r.b, << [ConstraintNew EXCEPT !.vars = r.vs, !.constant = r.constant] >> >>

\* Board::new_constraint: <<board, sequence of zero or one constraint>>
NewConstraint(b, i, hh, ww) ==
    IF b.st[i] < 0 THEN <<b, <<>> >>
    ELSE NewConstraintOf(NewConstraintLoop(b, IterNeighbors(i, hh, ww), b.st[i], hh, ww))

---------------------------------------------------------------------------
(* solver/csp/constraint.rs: Constraint *)

\* Constraint::update_variable: recompute the working fields from the trial
\* assignments ta; next_unassigned is the last unassigned variable
UpdateVariable(c, ta) ==
    LET un == {k \in 1..Len(c.vars) : ta[c.vars[k]] < 0}
        on == {k \in 1..Len(c.vars) : ta[c.vars[k]] >= 1}
    IN [c EXCEPT !.current_constant = Cardinality(on),
                 !.unassigned = Cardinality(un),
                 !.next_unassigned =
                     IF un = {} THEN 0 - 1
                     ELSE c.vars[CHOOSE k \in un : \A k2 \in un : k2 <= k]]

\* Constraint::is_satisfied
IsSatisfied(c) ==
    /\ c.current_constant <= c.constant
    /\ (c.unassigned > 0 \/ c.current_constant = c.constant)

\* Constraint::suggest_unassigned_variable: <<variable or -1, value it is set to>>
SuggestUnassignedVariable(c) ==
    IF c.next_unassigned < 0 THEN <<0 - 1, 0>>
    ELSE IF c.current_constant = c.constant THEN <<c.next_unassigned, 0>>
    ELSE IF c.constant - c.current_constant = c.unassigned THEN <<c.next_unassigned, 1>>
    ELSE <<0 - 1, 0>>

\* Constraint::is_empty
IsEmpty(c) == Len(c.vars) = 0

\* a faulty removal: a MARKED variable is removed and the constant kept
RemoveMarkedKeepConstant(s, st) ==
    IF st[s.vs[s.k]] >= 0 \/ st[s.vs[s.k]] = MARKED
    THEN [s EXCEPT !.vs = SwapRemove(@, s.k), !.k = @ - 1]
    ELSE [s EXCEPT !.k = @ - 1]

\* the body of the removal loop of update_and_remove_known_variables; the loop
\* state is [vs: the variables, constant, k]
RemoveKnownAt(s, st) ==
    CASE st[s.vs[s.k]] >= 0 -> [s EXCEPT !.vs = SwapRemove(@, s.k), !.k = @ - 1]
      [] st[s.vs[s.k]] = MARKED ->
             [s EXCEPT !.vs = SwapRemove(@, s.k), !.constant = @ - 1, !.k = @ - 1]
      [] OTHER -> [s EXCEPT !.k = @ - 1]

\* the removal loop (i runs from the last index down to the first)
RemoveKnown(vs, constant, st) ==
    While(LAMBDA t : t.k >= 1, LAMBDA t : RemoveKnownAt(t, st),
          [vs |-> vs, constant |-> constant, k |-> Len(vs)], Len(vs))

\* `board.open(*variable)`, then `board.new_constraint(*variable)`:
\* <<board, sequence of zero or one constraint>>
OpenAndConstrain(b, i, cont, hh, ww) ==
    NewConstraint(BoardOpen(b, i, cont, hh, ww)[1], i, hh, ww)

\* `if let Some(constraint) = new_constraint(..) { constraints.push(constraint) }`
\* in a loop whose state is [b, cs, i], n being what new_constraint gave
PushConstraint(n, s) == [b |-> n[1], cs |-> s.cs \o n[2], i |-> s.i + 1]

\* a faulty constant == 0 branch: the variables are opened but no constraint is
\* built from them
OpenAllUnconstrained(b, vs, cont, hh, ww) ==
    While(LAMBDA t : t.i < Len(vs),
          LAMBDA t : [b |-> BoardOpen(t.b, vs[t.i + 1], cont, hh, ww)[1], cs |-> <<>>,
                      i |-> t.i + 1],
          [b |-> b, cs |-> <<>>, i |-> 0], Len(vs))

\* constant == 0: open every variable and build a constraint from it
OpenAll(b, vs, cont, hh, ww) ==
    While(LAMBDA t : t.i < Len(vs),
          LAMBDA t : PushConstraint(OpenAndConstrain(t.b, vs[t.i + 1], cont, hh, ww), t),
          [b |-> b, cs |-> <<>>, i |-> 0], Len(vs))

\* constant == variables.len(): flag every variable
FlagAll(b, vs, hh, ww) ==
    While(LAMBDA t : t.k <= Len(vs),
          LAMBDA t : [b |-> BoardFlag(t.b, vs[t.k], hh, ww), k |-> t.k + 1],
          [b |-> b, k |-> 1], Len(vs)).b

\* Constraint::update_and_remove_known_variables:
\* [c: the constraint after the call, b: the board, some: whether Some(..) is
\*  returned, new: the returned constraints]
\* the part of update_and_remove_known_variables after the removal loop, c1
\* being the constraint the loop left and o what OpenAll gives for it
ResolveTrivial(c1, o, b, hh, ww) ==
    IF IsEmpty(c1) THEN [c |-> c1, b |-> b, some |-> FALSE, new |-> <<>>]
    ELSE IF c1.constant = 0
         THEN [c |-> [c1 EXCEPT !.vars = <<>>, !.constant = 0],
               b |-> o.b, some |-> TRUE, new |-> o.cs]
    ELSE IF c1.constant = Len(c1.vars)
         THEN [c |-> [c1 EXCEPT !.vars = <<>>, !.constant = 0],
               b |-> FlagAll(b, c1.vars, hh, ww), some |-> TRUE, new |-> <<>>]
    ELSE [c |-> c1, b |-> b, some |-> FALSE, new |-> <<>>]

\* the constraint after the removal loop; r is what RemoveKnown gave
WithKnownRemoved(c, r) == [c EXCEPT !.vars = r.vs, !.constant = r.constant]

ResolveKnown(c1, b, cont, hh, ww) ==
    ResolveTrivial(c1,
                   IF ~IsEmpty(c1) /\ c1.constant = 0
                   THEN OpenAll(b, c1.vars, cont, hh, ww)
                   ELSE [b |-> b, cs |-> <<>>, i |-> 0],
                   b, hh, ww)

UpdateAndRemoveKnownVariables(c, b, cont, hh, ww) ==
    ResolveKnown(WithKnownRemoved(c, RemoveKnown(c.vars, c.constant, b.st)),
                 b, cont, hh, ww)

\* the second loop of Constraint::simplify: every variable of other is
\* swap_removed from this, at the first index that holds it
RemoveVar(tv, hit) ==
    IF hit = {} THEN tv ELSE SwapRemove(tv, CHOOSE j \in hit : \A j2 \in hit : j <= j2)

RemoveVars(tv, ov) ==
    While(LAMBDA t : t.k <= Len(ov),
          LAMBDA t : [tv |-> RemoveVar(t.tv, {j \in 1..Len(t.tv) : t.tv[j] = ov[t.k]}),
                      k |-> t.k + 1],
          [tv |-> tv, k |-> 1], Len(ov)).tv

\* a faulty simplify: `this.constant -= other.constant` is forgotten
SimplifyKeepConstant(this, other) ==
    IF \E k \in 1..Len(other.vars) : other.vars[k] \notin SeqSet(this.vars)
    THEN <<this, other, FALSE>>
    ELSE <<[this EXCEPT !.vars = RemoveVars(this.vars, other.vars)], other, TRUE>>

\* Constraint::simplify(this, other): <<this, other, returned value>>; the
\* longer of the two plays `this`
SimplifyOrdered(this, other) ==
    IF \E k \in 1..Len(other.vars) : other.vars[k] \notin SeqSet(this.vars)
    THEN <<this, other, FALSE>>
    ELSE <<[this EXCEPT !.vars = RemoveVars(this.vars, other.vars),
                        !.constant = this.constant - other.constant],
           other, TRUE>>

Simplify(this, other) ==
    IF Len(this.vars) < Len(other.vars)
    THEN LET r == SimplifyOrdered(other, this) IN <<r[2], r[1], r[3]>>
    ELSE SimplifyOrdered(this, other)

\* Constraint::coupled_with
CoupledWith(c, other) == SeqSet(c.vars) \cap SeqSet(other.vars) # {}

---------------------------------------------------------------------------
(* solver/csp/mod.rs: CSPSolver::simplify_constraints *)

\* The loops of simplify_constraints run on a record
\*   [cs: constraints, b: board, i: index (1-based), done, ext: to_extend,
\*    brk: the inner `loop` was left]

\* the body of `while i < self.constraints.len()`, u being what
\* update_and_remove_known_variables gave for constraint i
Phase1SweepNext(u, s) ==
    [s EXCEPT !.cs[s.i] = u.c, !.b = u.b, !.i = s.i + 1,
              !.done = s.done /\ ~u.some, !.ext = s.ext \o u.new]

\* the `while i < self.constraints.len()` sweep
Phase1Sweep(s, cont, hh, ww) ==
    While(LAMBDA t : t.i <= Len(t.cs),
          LAMBDA t : Phase1SweepNext(
                         UpdateAndRemoveKnownVariables(t.cs[t.i], t.b, cont, hh, ww), t),
          s, Len(s.cs))

\* a faulty end of the sweep: to_extend is dropped, not appended
Phase1DropExtend(s) ==
    IF s.ext = <<>> THEN [s EXCEPT !.brk = TRUE]
    ELSE [s EXCEPT !.ext = <<>>]

\* `if to_extend.is_empty() { break } self.constraints.extend(to_extend)`
Phase1Extend(s) ==
    IF s.ext = <<>> THEN [s EXCEPT !.brk = TRUE]
    ELSE [s EXCEPT !.cs = s.cs \o s.ext, !.ext = <<>>]

\* the inner `loop`: sweep, append to_extend, sweep the appended ones, ...;
\* every round but the last opens a cell
Phase1(cs, b, cont, hh, ww) ==
    While(LAMBDA t : ~t.brk,
          LAMBDA t : Phase1Extend(Phase1Sweep(t, cont, hh, ww)),
          [cs |-> cs, b |-> b, i |-> 1, done |-> TRUE, ext |-> <<>>, brk |-> FALSE],
          Cardinality(DOMAIN cont) + 1)

\* a faulty pairwise pass: the empty constraints are never removed
KeepEmpty(cs, i) == cs

\* `while i < len && constraints[i].is_empty() { swap_remove(i) }`
DropEmpty(cs, i) ==
    While(LAMBDA c : i <= Len(c) /\ IsEmpty(c[i]), LAMBDA c : SwapRemove(c, i), cs, Len(cs))

\* the body of `for j in i + 1..len`, r being what simplify gave for the pair
PairLoopNext(r, s, i) ==
    [s EXCEPT !.cs[i] = r[1], !.cs[s.j] = r[2], !.j = s.j + 1, !.done = s.done /\ ~r[3]]

\* `for j in i + 1..len { if simplify(constraints[i], constraints[j]) { done = false } }`
PairLoop(cs, i, done) ==
    While(LAMBDA t : t.j <= Len(t.cs),
          LAMBDA t : PairLoopNext(Simplify(t.cs[i], t.cs[t.j]), t, i),
          [cs |-> cs, j |-> i + 1, done |-> done], Len(cs))

\* `i += 1` after the `for j` loop, which gave r
Phase2PairsDone(r, i) == [cs |-> r.cs, i |-> i + 1, done |-> r.done]

\* the body of the `while i < len` loop once the empty constraints at i are
\* dropped
Phase2At(cs1, i, done) ==
    IF i <= Len(cs1) THEN Phase2PairsDone(PairLoop(cs1, i, done), i)
    ELSE [cs |-> cs1, i |-> i + 1, done |-> done]

\* the pairwise pass
Phase2(cs, done) ==
    While(LAMBDA t : t.i <= Len(t.cs),
          LAMBDA t : Phase2At(DropEmpty(t.cs, t.i), t.i, t.done),
          [cs |-> cs, i |-> 1, done |-> done], Len(cs))

\* what the pairwise pass p2 leaves, on board b
AfterPhase2(p2, b) == [cs |-> p2.cs, b |-> b, done |-> p2.done]

\* `if !done { continue }`, p1 being what the first phase gave
AfterPhase1(p1) ==
    IF ~p1.done THEN [cs |-> p1.cs, b |-> p1.b, done |-> FALSE]
    ELSE AfterPhase2(Phase2(p1.cs, TRUE), p1.b)

\* one iteration of the outer `loop` of simplify_constraints; done says whether
\* the loop is left after it
SimplifyIteration(cs, b, cont, hh, ww) == AfterPhase1(Phase1(cs, b, cont, hh, ww))

---------------------------------------------------------------------------
(* solver/csp/mod.rs: CSPSolver::separate_constraints *)

\* a faulty search: only the last constraint of the run is compared
CoupledWithLast(cs, start0, end0) ==
    LET hit == {i \in end0..(Len(cs) - 1) : CoupledWith(cs[i + 1], cs[end0])}
    IN IF hit = {} THEN 0 - 1 ELSE CHOOSE i \in hit : \A i2 \in hit : i <= i2

\* the first i in end..len coupled with a constraint of the run start..end
\* (0-based, as in the code), or -1
FirstCoupled(cs, start0, end0) ==
    LET hit == {i \in end0..(Len(cs) - 1) :
                    \E j \in start0..(end0 - 1) : CoupledWith(cs[i + 1], cs[j + 1])}
    IN IF hit = {} THEN 0 - 1 ELSE CHOOSE i \in hit : \A i2 \in hit : i <= i2

\* the body of `for end in 1..=len`, i being what the search gave; the loop
\* state is [cs, start0, end0, res: the runs <<start, end>> pushed]
SeparateAt(i, s) ==
    IF i >= 0
    THEN [s EXCEPT !.cs = IF i # s.end0 THEN SwapSeq(s.cs, i + 1, s.end0 + 1) ELSE s.cs,
                   !.end0 = s.end0 + 1]
    ELSE [s EXCEPT !.start0 = s.end0, !.end0 = s.end0 + 1,
                   !.res = Append(s.res, <<s.start0, s.end0>>)]

SeparateLoop(cs) ==
    While(LAMBDA t : t.end0 <= Len(t.cs),
          LAMBDA t : SeparateAt(FirstCoupled(t.cs, t.start0, t.end0), t),
          [cs |-> cs, start0 |-> 0, end0 |-> 1, res |-> <<>>], Len(cs))

\* the reordered list and the runs of a finished loop
SeparateResult(s) == <<s.cs, s.res>>

\* CSPSolver::separate_constraints: the reordered constraint list and, for
\* every component, the half-open run start..end (0-based) of its constraints
SeparateConstraints(cs) == SeparateResult(SeparateLoop(cs))

---------------------------------------------------------------------------
(* solver/csp/solution_set.rs: SolutionSet *)

\* the node loop of construct: nodes is a sequence of [variable, constraints],
\* constraints being indices into CSPSolver.constraints; hit holds the nodes
\* of variable v
AddVariable(nodes, v, ci, hit) ==
    IF hit # {}
    THEN [nodes EXCEPT ![CHOOSE x \in hit : \A y \in hit : x <= y].constraints =
                           Append(@, ci)]
    ELSE Append(nodes, [variable |-> v, constraints |-> <<ci>>])

AddVariables(nodes, vs, ci) ==
    While(LAMBDA t : t.k <= Len(vs),
          LAMBDA t : [nodes |-> AddVariable(t.nodes, vs[t.k], ci,
                                            {n \in 1..Len(t.nodes) :
                                                 t.nodes[n].variable = vs[t.k]}),
                      k |-> t.k + 1],
          [nodes |-> nodes, k |-> 1], Len(vs)).nodes

\* `for constraint in constraints { for variable in variables { ... } }`
BuildNodes(cs, cons) ==
    While(LAMBDA t : t.k <= Len(cons),
          LAMBDA t : [nodes |-> AddVariables(t.nodes, cs[cons[t.k]].vars, cons[t.k]),
                      k |-> t.k + 1],
          [nodes |-> <<>>, k |-> 1], Len(cons)).nodes

\* the largest number of constraints a node holds
MaxConstraints(nodes) ==
    IF nodes = <<>> THEN 0
    ELSE LET ls == {Len(nodes[k].constraints) : k \in 1..Len(nodes)}
         IN CHOOSE m \in ls : \A x \in ls : x <= m

\* nodes.sort(): stable, by the number of constraints, most first
\* (Ord for ConstraintList reverses the comparison of the lengths)
RECURSIVE SortNodes(_, _)
SortNodes(nodes, n) ==
    IF n < 0 THEN <<>>
    ELSE SelectSeq(nodes, LAMBDA x : Len(x.constraints) = n) \o SortNodes(nodes, n - 1)

SortedNodes(nodes) == SortNodes(nodes, MaxConstraints(nodes))

\* the fields of the SolutionSet with the sorted nodes, min being the sum of
\* the constants
SolutionSetOf(nodes, min, cons) ==
    LET nv == Len(nodes)
    IN [ constraints |-> cons,
         variables   |-> [k \in 1..nv |-> nodes[k].variable],
         nodes       |-> [k \in 1..nv |-> nodes[k].constraints],
         solutions   |-> IF min + 1 < 0 THEN <<>> ELSE [k \in 1..(min + 1) |-> 0],
         mines       |-> IF min + 1 < 0 THEN <<>>
                         ELSE [k \in 1..(min + 1) |-> [j \in 1..nv |-> 0]],
         min         |-> min,
         max         |-> 0,
         \* vec![0; (min + 1) as usize] with min + 1 < 0 asks for 2^64 - x entries
         panic       |-> min + 1 < 0 ]

\* a faulty construct: min is the constant of the first constraint only
SolutionSetNewFirst(cs, cons) ==
    SolutionSetOf(SortedNodes(BuildNodes(cs, cons)),
                  IF cons = <<>> THEN 0 ELSE cs[cons[1]].constant, cons)

\* SolutionSet::new / construct over the constraints with indices cons
SolutionSetNew(cs, cons) ==
    SolutionSetOf(SortedNodes(BuildNodes(cs, cons)),
                  SumSeq([k \in 1..Len(cons) |-> cs[cons[k]].constant]), cons)

\* SolutionSet::get_min, get_max
GetMin(ss) == ss.min
GetMax(ss) == ss.max

\* `for i in from..to { self.solutions[i as usize] = 0 }`: <<solutions, panicked>>;
\* an index out of range panics, the entries before it are already zero
ZeroRange(sol, from, to) ==
    << [k \in 1..Len(sol) |-> IF from >= 0 /\ from <= k - 1 /\ k - 1 < to THEN 0 ELSE sol[k]],
       from < to /\ (from < 0 \/ to > Len(sol)) >>

\* `for i in (from..=to).rev() { self.solutions[i as usize] = 0 }`
ZeroRangeRev(sol, from, to) ==
    << [k \in 1..Len(sol) |->
           IF to < Len(sol) /\ from <= k - 1 /\ k - 1 <= to THEN 0 ELSE sol[k]],
       from <= to /\ (to >= Len(sol) \/ from < 0) >>

\* SolutionSet::reduce_min_max
ReduceMinMax(ss, min, max) ==
    LET lo  == IF min > ss.min THEN ZeroRange(ss.solutions, ss.min, min)
               ELSE <<ss.solutions, FALSE>>
        s1  == IF lo[2] THEN [ss EXCEPT !.solutions = lo[1], !.panic = TRUE]
               ELSE IF min > ss.min THEN [ss EXCEPT !.solutions = lo[1], !.min = min]
               ELSE ss
        hi  == IF max < s1.max THEN ZeroRangeRev(s1.solutions, max + 1, s1.max)
               ELSE <<s1.solutions, FALSE>>
    IN IF s1.panic THEN s1
       ELSE IF hi[2] THEN [s1 EXCEPT !.solutions = hi[1], !.panic = TRUE]
       ELSE IF max < s1.max THEN [s1 EXCEPT !.solutions = hi[1], !.max = max]
       ELSE s1

\* `for j in self.min..=self.max { total += row[j as usize] }`:
\* <<sum, panicked>>
SumRange(row, from, to) ==
    << IF from < 0 \/ from > to THEN 0
       ELSE SumSeq([k \in 1..(Min2(to, Len(row) - 1) - from + 1) |-> row[from + k]]),
       from <= to /\ (from < 0 \/ to >= Len(row)) >>

\* a faulty test in mark_mines: a variable that is a mine in some solution is
\* flagged
MarkAtSome(t, s, ss, total_solutions, hh, ww) ==
    IF t[2] THEN [s EXCEPT !.panic = TRUE]
    ELSE IF t[1] > 0
         THEN [s EXCEPT !.b = BoardFlag(s.b, ss.variables[s.i], hh, ww), !.i = s.i + 1]
    ELSE [s EXCEPT !.i = s.i + 1]

\* the body of `for i in 0..self.variables.len()`, t being the total of
\* variable i; the loop state is [b, i (1-based), panic]
MarkAt(t, s, ss, total_solutions, hh, ww) ==
    IF t[2] THEN [s EXCEPT !.panic = TRUE]
    ELSE IF t[1] = total_solutions
         THEN [s EXCEPT !.b = BoardFlag(s.b, ss.variables[s.i], hh, ww), !.i = s.i + 1]
    ELSE [s EXCEPT !.i = s.i + 1]

\* the variable loop of mark_mines
MarkLoop(ss, b, total_solutions, hh, ww) ==
    While(LAMBDA t : ~t.panic /\ t.i <= Len(ss.variables),
          LAMBDA t : MarkAt(SumRange([k \in 1..Len(ss.mines) |-> ss.mines[k][t.i]],
                                     ss.min, ss.max),
                            t, ss, total_solutions, hh, ww),
          [b |-> b, i |-> 1, panic |-> FALSE], Len(ss.variables))

\* mark_mines once total_solutions is summed (ts)
MarkMinesWith(ts, ss, b, hh, ww) ==
    IF ts[2] THEN [b |-> b, i |-> 1, panic |-> TRUE]
    ELSE MarkLoop(ss, b, ts[1], hh, ww)

\* SolutionSet::mark_mines: [b: the board, panic]
MarkMines(ss, b, hh, ww) ==
    MarkMinesWith(SumRange(ss.solutions, ss.min, ss.max), ss, b, hh, ww)

---------------------------------------------------------------------------
(* solver/csp/solution_set.rs: SolutionSet::enumerate_solutions.            *)
(* The search state is a record                                            *)
(*   ss: the component, ta: the trial assignments of all cells,            *)
(*   cs: CSPSolver.constraints (the component shares them),                *)
(*   level, vi (variable_index), lc (last_choice),                         *)
(*   fin: the loop was left, panic: an index was out of range              *)

\* ConstraintList::update_constraints of the node with (1-based) index n
UpdateConstraints(cs, idxs, ta) ==
    While(LAMBDA t : t.k <= Len(idxs),
          LAMBDA t : [cs |-> [t.cs EXCEPT ![idxs[t.k]] = UpdateVariable(@, ta)],
                      k |-> t.k + 1],
          [cs |-> cs, k |-> 1], Len(idxs)).cs

\* ConstraintList::check_constraints
CheckConstraints(cs, idxs) == \A k \in 1..Len(idxs) : IsSatisfied(cs[idxs[k]])

\* the part of enumerate_solutions before its main loop
EnumStart(ss, ta, cs) ==
    LET nv  == Len(ss.variables)
        ta1 == [i \in DOMAIN ta |-> IF i \in SeqSet(ss.variables) THEN 0 - 1 ELSE ta[i]]
    IN [ ss    |-> [ss EXCEPT !.solutions = [k \in 1..Len(ss.solutions) |-> 0],
                              !.mines = [k \in 1..Len(ss.solutions) |->
                                            [j \in 1..nv |-> 0]]],
         ta    |-> ta1,
         cs    |-> UpdateConstraints(cs, ss.constraints, ta1),
         level |-> 0,
         vi    |-> [k \in 1..nv |-> 0 - 1],
         lc    |-> 0 - 1,
         fin   |-> FALSE,
         panic |-> FALSE ]

\* a faulty record: the solution is counted but not the mines of its variables
RecordCountOnly(S) ==
    LET nv == Len(S.ss.variables)
        m  == SumSeq([j \in 1..nv |-> S.ta[S.ss.variables[j]]])
    IN IF m < 0 \/ m >= Len(S.ss.solutions) THEN [S EXCEPT !.panic = TRUE]
       ELSE [S EXCEPT !.ss.solutions[m + 1] = @ + 1,
                      !.ss.min = Min2(@, m),
                      !.ss.max = Max2(@, m),
                      !.level = S.level - 1]

\* `level == self.variables.len()`: the assignment is recorded
RecordSolution(S) ==
    LET nv == Len(S.ss.variables)
        m  == SumSeq([j \in 1..nv |-> S.ta[S.ss.variables[j]]])
    IN IF m < 0 \/ m >= Len(S.ss.solutions) THEN [S EXCEPT !.panic = TRUE]
       ELSE [S EXCEPT !.ss.solutions[m + 1] = @ + 1,
                      !.ss.min = Min2(@, m),
                      !.ss.max = Max2(@, m),
                      !.ss.mines[m + 1] = [j \in 1..nv |-> @[j] + S.ta[S.ss.variables[j]]],
                      !.level = S.level - 1]

\* the first constraint of the component that suggests a variable:
\* <<variable or -1, value>>
FirstSuggestion(cs, idxs) ==
    LET hit == {k \in 1..Len(idxs) : SuggestUnassignedVariable(cs[idxs[k]])[1] >= 0}
    IN IF hit = {} THEN <<0 - 1, 0>>
       ELSE SuggestUnassignedVariable(cs[idxs[CHOOSE k \in hit : \A k2 \in hit : k <= k2]])

\* `loop { last_choice += 1; if variables[last_choice].test_assignment < 0 { break } }`:
\* the index found, or the length of variables when the index runs out of range
NextUnassigned(vs, ta, lc) ==
    LET hit == {n \in (lc + 1)..(Len(vs) - 1) : ta[vs[n + 1]] < 0}
    IN IF hit = {} THEN Len(vs) ELSE CHOOSE n \in hit : \A n2 \in hit : n <= n2

\* `variable_index[level] < 0`: a variable is picked for this level
PickVariable(S) ==
    LET sg == FirstSuggestion(S.cs, S.ss.constraints)
        vs == S.ss.variables
    IN IF sg[1] >= 0
       THEN LET at == {k \in 1..Len(vs) : vs[k] = sg[1]}
            IN IF at = {} THEN [S EXCEPT !.panic = TRUE]
               ELSE [S EXCEPT !.vi[S.level + 1] = (CHOOSE k \in at : \A k2 \in at : k2 <= k) - 1,
                              \* set by the suggestion, then `test_assignment -= 1`
                              !.ta[sg[1]] = sg[2] - 1]
       ELSE LET n == NextUnassigned(vs, S.ta, S.lc)
            IN IF n >= Len(vs) THEN [S EXCEPT !.panic = TRUE]
               ELSE [S EXCEPT !.lc = n, !.vi[S.level + 1] = n]

\* a faulty backtrack: the exhausted variable keeps its last trial value
TryOrBacktrackKeep(S) ==
    LET v   == S.vi[S.level + 1]
        var == S.ss.variables[v + 1]
        nd  == S.ss.nodes[v + 1]
    IN IF S.ta[var] > 0
       THEN [S EXCEPT !.lc = IF v <= S.lc THEN v - 1 ELSE S.lc,
                      !.vi[S.level + 1] = 0 - 1,
                      !.level = S.level - 1]
       ELSE LET ta1 == [S.ta EXCEPT ![var] = @ + 1]
                cs1 == UpdateConstraints(S.cs, nd, ta1)
            IN [S EXCEPT !.ta = ta1,
                         !.cs = cs1,
                         !.level = IF CheckConstraints(cs1, nd) THEN S.level + 1
                                   ELSE S.level]

\* the else-part of the loop body: the picked variable's next value is tried,
\* or its domain is exhausted and the search goes up
TryOrBacktrack(S) ==
    LET v   == S.vi[S.level + 1]
        var == S.ss.variables[v + 1]
        nd  == S.ss.nodes[v + 1]
    IN IF S.ta[var] > 0
       THEN LET ta1 == [S.ta EXCEPT ![var] = 0 - 1]
            IN [S EXCEPT !.lc = IF v <= S.lc THEN v - 1 ELSE S.lc,
                         !.ta = ta1,
                         !.cs = UpdateConstraints(S.cs, nd, ta1),
                         !.vi[S.level + 1] = 0 - 1,
                         !.level = S.level - 1]
       ELSE LET ta1 == [S.ta EXCEPT ![var] = @ + 1]
                cs1 == UpdateConstraints(S.cs, nd, ta1)
            IN [S EXCEPT !.ta = ta1,
                         !.cs = cs1,
                         !.level = IF CheckConstraints(cs1, nd) THEN S.level + 1
                                   ELSE S.level]

\* one iteration of the main `loop`
EnumIteration(S) ==
    IF S.level = Len(S.ss.variables) THEN RecordSolution(S)   \* then `continue`
    ELSE IF S.level < 0 THEN [S EXCEPT !.panic = TRUE]        \* variable_index[-1 as usize]
    ELSE LET S1 == IF S.vi[S.level + 1] < 0 THEN PickVariable(S) ELSE S
         IN IF S1.panic THEN S1
            ELSE LET S2 == TryOrBacktrack(S1)
                 IN [S2 EXCEPT !.fin = S2.level < 0]

---------------------------------------------------------------------------
(* solver/csp/mod.rs: CSPSolver::solve, step by step.                       *)
(* pc: "start" (line 22), "loop" (the while test, line 32), "simplify" (an  *)
(* iteration of simplify_constraints), "partition" (lines 34-38), "enum"    *)
(* (an iteration of enumerate_solutions), "bound" (lines 43-56), "mark"     *)
(* (lines 57-59), "far" (lines 60-70), "ret" (solve has returned), "panic"  *)
(* (the thread has panicked).                                               *)

EnIdle == [k |-> 0, level |-> 0, vi |-> <<>>, lc |-> 0 - 1]
LocIdle == [remaining |-> 0, far |-> 0, far_max |-> 0]
GenIdle == [phase |-> "none"]
GameIdle == [call |-> "none"]
SimIdle == [i |-> 0, j |-> 0, done |-> TRUE, ext |-> <<>>,
            ret |-> [kind |-> "none", some |-> FALSE, new |-> <<>>, value |-> FALSE]]

\* the cell states of a game on which nothing was opened or flagged
AllClosed(cont) == [i \in DOMAIN cont |-> "Closed"]

\* CSPSolver::new (Solver::new): a Board copied from the game, no constraints
SolverNew(cont) == BoardNew(cont, AllClosed(cont))

\* a usize overflow in this step: the debug build panics, the release build
\* goes on with the wrapped value
PcAfter(b, next) == IF b.ovf THEN {"panic", next} ELSE {next}

\* lines 25-31: a constraint from every cell, row-major
InitialConstraints(b, cs, n, hh, ww) ==
    While(LAMBDA t : t.i < n,
          LAMBDA t : PushConstraint(NewConstraint(t.b, t.i, hh, ww), t),
          [b |-> b, cs |-> cs, i |-> 0], n)

\* solve after `self.board.open(start_from)`, which gave o
SolveOpened(o) ==
    IF o[2] = MINE
    THEN /\ board' = [o[1] EXCEPT !.ovf = FALSE]
         /\ pc' \in PcAfter(o[1], "ret")
         /\ result' = FALSE
         /\ UNCHANGED constraints
    ELSE \E r \in {InitialConstraints(o[1], constraints, h * w, h, w)} :
            /\ board' = [r.b EXCEPT !.ovf = FALSE]
            /\ constraints' = r.cs
            /\ pc' \in PcAfter(r.b, "loop")
            /\ UNCHANGED result

SolveStart ==
    /\ pc = "start"
    /\ SolveOpened(BoardOpen(board, start, content, h, w))
    /\ UNCHANGED <<h, w, content, start, subsets, en, loc, gen>>
    /\ UNCHANGED <<game, sim, msState>>

\* `while !self.board.done()`, and the final `self.board.done()` when it is left
LoopTest ==
    /\ pc = "loop"
    /\ IF BoardDone(board, content)
       THEN pc' = "ret" /\ result' = TRUE
       ELSE pc' = "simplify" /\ UNCHANGED result
    /\ UNCHANGED <<h, w, content, start, board, constraints, subsets, en, loc, gen>>
    /\ UNCHANGED <<game, sim, msState>>

\* one iteration of the outer loop of simplify_constraints
SimplifyStep ==
    /\ pc = "simplify"
    /\ \E it \in {SimplifyIteration(constraints, board, content, h, w)} :
          /\ constraints' = it.cs
          /\ board' = [it.b EXCEPT !.ovf = FALSE]
          /\ pc' \in PcAfter(it.b, IF it.done THEN "partition" ELSE "simplify")
    /\ UNCHANGED <<h, w, content, start, subsets, en, loc, result, gen>>
    /\ UNCHANGED <<game, sim, msState>>

\* enumerate_solutions is entered for component k: the state before its loop
BeginEnum(sets, k, b, cs) ==
    LET S == EnumStart(sets[k], b.ta, cs)
    IN [ sets |-> [sets EXCEPT ![k] = S.ss],
         b    |-> [b EXCEPT !.ta = S.ta],
         cs   |-> S.cs,
         en   |-> [k |-> k, level |-> S.level, vi |-> S.vi, lc |-> S.lc] ]

\* `result.push(SolutionSet::new(self.constraints[start..end]...))` for every
\* run sep[2] of the reordered list sep[1]
ComponentsOf(sep) ==
    [ cs   |-> sep[1],
      sets |-> [k \in 1..Len(sep[2]) |->
                   SolutionSetNew(sep[1],
                       [j \in 1..(sep[2][k][2] - sep[2][k][1]) |-> sep[2][k][1] + j])] ]

\* separate_constraints as solve sees it: the reordered constraints and the
\* components returned
Components(cs) == ComponentsOf(SeparateConstraints(cs))

\* lines 34-38: leave if the board is done, else separate the constraints
\* into components and enter the enumeration of the first
Partition ==
    /\ pc = "partition"
    /\ IF BoardDone(board, content)
       THEN /\ pc' = "ret" /\ result' = TRUE
            /\ UNCHANGED <<board, constraints, subsets, en>>
       ELSE \E cp \in {Components(constraints)} :
               /\ UNCHANGED result
               /\ IF \E k \in 1..Len(cp.sets) : cp.sets[k].panic
                  THEN /\ pc' = "panic" /\ subsets' = cp.sets /\ constraints' = cp.cs
                       /\ UNCHANGED <<board, en>>
                  ELSE IF cp.sets = <<>>
                  THEN /\ pc' = "bound" /\ subsets' = cp.sets /\ constraints' = cp.cs
                       /\ UNCHANGED <<board, en>>
                  ELSE \E be \in {BeginEnum(cp.sets, 1, board, cp.cs)} :
                          /\ pc' = "enum" /\ subsets' = be.sets /\ board' = be.b
                          /\ constraints' = be.cs /\ en' = be.en
    /\ UNCHANGED <<h, w, content, start, loc, gen>>
    /\ UNCHANGED <<game, sim, msState>>

\* one iteration of the loop of enumerate_solutions on component en.k; when
\* the loop is left the next component is entered
SearchState ==
    [ ss |-> subsets[en.k], ta |-> board.ta, cs |-> constraints,
      level |-> en.level, vi |-> en.vi, lc |-> en.lc,
      fin |-> FALSE, panic |-> FALSE ]

EnumStep ==
    /\ pc = "enum"
    /\ LET S  == EnumIteration(SearchState)
           sets1 == [subsets EXCEPT ![en.k] = S.ss]
           b1 == [board EXCEPT !.ta = S.ta]
       IN IF S.panic
          THEN /\ pc' = "panic"
               /\ UNCHANGED <<board, constraints, subsets, en>>
          ELSE IF S.fin /\ en.k < Len(subsets)
          THEN LET be == BeginEnum(sets1, en.k + 1, b1, S.cs)
               IN /\ pc' = "enum" /\ subsets' = be.sets /\ board' = be.b
                  /\ constraints' = be.cs /\ en' = be.en
          ELSE /\ pc' = IF S.fin THEN "bound" ELSE "enum"
               /\ subsets' = sets1 /\ board' = b1 /\ constraints' = S.cs
               /\ en' = IF S.fin THEN EnIdle
                        ELSE [k |-> en.k, level |-> S.level, vi |-> S.vi, lc |-> S.lc]
    /\ UNCHANGED <<h, w, content, start, loc, result, gen>>
    /\ UNCHANGED <<game, sim, msState>>

\* a faulty sum: the min of the i-th component is counted with the others
AllMin(sets, i) == SumSeq([j \in 1..Len(sets) |-> GetMin(sets[j])])

\* sum of get_min / get_max over every component but the i-th
OthersMin(sets, i) == SumSeq([j \in 1..Len(sets) |-> IF j = i THEN 0 ELSE GetMin(sets[j])])
OthersMax(sets, i) == SumSeq([j \in 1..Len(sets) |-> IF j = i THEN 0 ELSE GetMax(sets[j])])

\* the body of `for i in 0..subsets.len()`, ss being component i after
\* reduce_min_max; the loop state is [sets, i (1-based), far_max]
CrossBoundAt(ss, s) ==
    [sets |-> [s.sets EXCEPT ![s.i] = ss], i |-> s.i + 1, far_max |-> s.far_max - GetMin(ss)]

\* a faulty cross bound: the cells of the far region are left out of the
\* lower bound
CrossBoundLoopNoFar(sets, remaining, far) ==
    While(LAMBDA t : t.i <= Len(t.sets),
          LAMBDA t : CrossBoundAt(
                         ReduceMinMax(t.sets[t.i],
                                      remaining - (0 + OthersMax(t.sets, t.i)),
                                      remaining - (0 + OthersMin(t.sets, t.i))), t),
          [sets |-> sets, i |-> 1, far_max |-> remaining], Len(sets))

\* lines 46-56
CrossBoundLoop(sets, remaining, far) ==
    While(LAMBDA t : t.i <= Len(t.sets),
          LAMBDA t : CrossBoundAt(
                         ReduceMinMax(t.sets[t.i],
                                      remaining - (far + OthersMax(t.sets, t.i)),
                                      remaining - (0 + OthersMin(t.sets, t.i))), t),
          [sets |-> sets, i |-> 1, far_max |-> remaining], Len(sets))

\* lines 43-56
CrossBound ==
    /\ pc = "bound"
    /\ \E r \in {CrossBoundLoop(subsets, UnflaggedMines(board), AsIsize(board.unknown))} :
          /\ subsets' = r.sets
          /\ loc' = [remaining |-> UnflaggedMines(board), far |-> board.unknown,
                     far_max |-> r.far_max]
          /\ pc' = IF \E k \in 1..Len(r.sets) : r.sets[k].panic THEN "panic" ELSE "mark"
    /\ UNCHANGED <<h, w, content, start, board, constraints, en, result, gen>>
    /\ UNCHANGED <<game, sim, msState>>

\* `subset.mark_mines(&mut self.board)` has given r
MarkAllAt(r, s) == [b |-> r.b, k |-> s.k + 1, panic |-> r.panic]

\* lines 57-59: [b, k, panic]
MarkAll(sets, b, hh, ww) ==
    While(LAMBDA t : ~t.panic /\ t.k <= Len(sets),
          LAMBDA t : MarkAllAt(MarkMines(sets[t.k], t.b, hh, ww), t),
          [b |-> b, k |-> 1, panic |-> FALSE], Len(sets))

Mark ==
    /\ pc = "mark"
    /\ \E r \in {MarkAll(subsets, board, h, w)} :
          /\ board' = [r.b EXCEPT !.ovf = FALSE]
          /\ pc' \in IF r.panic THEN {"panic"} ELSE PcAfter(r.b, "far")
    /\ subsets' = <<>>
    /\ UNCHANGED <<h, w, content, start, constraints, en, loc, result, gen>>
    /\ UNCHANGED <<game, sim, msState>>

\* lines 61-67: every UNKNOWN cell is opened and a constraint built from it
OpenPositions(b, cs, ps, cont, hh, ww) ==
    While(LAMBDA t : t.i < Len(ps),
          LAMBDA t : PushConstraint(OpenAndConstrain(t.b, ps[t.i + 1], cont, hh, ww), t),
          [b |-> b, cs |-> cs, i |-> 0], Len(ps))

\* lines 60-70: open the far region and go round the loop, or break and
\* return self.board.done()
Far ==
    /\ pc = "far"
    /\ IF loc.far_max <= 0 /\ loc.far > 0
       THEN \E r \in {OpenPositions(board, constraints, EnumerateUnknown(board),
                                    content, h, w)} :
               /\ board' = [r.b EXCEPT !.ovf = FALSE]
               /\ constraints' = r.cs
               /\ pc' \in PcAfter(r.b, "loop")
               /\ UNCHANGED result
       ELSE /\ pc' = "ret"
            /\ result' = BoardDone(board, content)
            /\ UNCHANGED <<board, constraints>>
    /\ UNCHANGED <<h, w, content, start, subsets, en, loc, gen>>
    /\ UNCHANGED <<game, sim, msState>>

SolverNext ==
    \/ SolveStart
    \/ LoopTest
    \/ SimplifyStep
    \/ Partition
    \/ EnumStep
    \/ CrossBound
    \/ Mark
    \/ Far

---------------------------------------------------------------------------
(* The solver on every board of a bounded family: a mine layout, all cells  *)
(* closed and unflagged, an in-bounds start coordinate                     *)

\* the state when solve(start_from) is called on a fresh CSPSolver for the
\* board of hh x ww cells with the mines ms
SolverInit(hh, ww, ms, s) ==
    /\ h = hh
    /\ w = ww
    /\ content = MatrixFrom(hh, ww, ms)
    /\ start = s
    /\ msState = AllClosed(content)
    /\ board = SolverNew(content)
    /\ constraints = <<>>
    /\ subsets = <<>>
    /\ en = EnIdle
    /\ loc = LocIdle
    /\ pc = "start"
    /\ result = "none"
    /\ gen = GenIdle
    /\ game = GameIdle
    /\ sim = SimIdle

\* the dimensions with at most n cells
Dims(n) == {d \in (1..n) \X (1..n) : d[1] * d[2] <= n}

\* every layout on every board of at most MaxCells cells
Init ==
    \E d \in Dims(MaxCells) :
       \E ms \in SUBSET Cells(d[1], d[2]) :
          \E s \in Cells(d[1], d[2]) : SolverInit(d[1], d[2], ms, s)

Next == SolverNext

Spec == Init /\ [][Next]_vars

\* the subsets of S with at most k elements
RECURSIVE UpTo(_, _)
UpTo(S, k) ==
    IF k = 0 THEN {{}}
    ELSE UpTo(S, k - 1) \cup UNION {{T \cup {x} : x \in S \ T} : T \in UpTo(S, k - 1)}

\* every layout of at most SparseMines mines on every board of at most
\* SparseCells cells
InitSparse ==
    \E d \in Dims(SparseCells) :
       \E ms \in UpTo(Cells(d[1], d[2]), SparseMines) :
          \E s \in Cells(d[1], d[2]) : SolverInit(d[1], d[2], ms, s)

SpecSparse == InitSparse /\ [][Next]_vars

\* the crowded family: BoundRows x BoundCols cells with more than SparseMines
\* and at most BoundMines mines, solve starting in the upper left quarter (the
\* mirrored layouts bring the other starts there)
BoundRows == 3
BoundCols == 4
BoundMines == 4

UpperLeft(hh, ww) ==
    {s \in Cells(hh, ww) : s \div ww <= (hh - 1) \div 2 /\ s % ww <= (ww - 1) \div 2}

InitBound ==
    \E ms \in UpTo(Cells(BoundRows, BoundCols), BoundMines) :
       /\ Cardinality(ms) > SparseMines
       /\ \E s \in UpperLeft(BoundRows, BoundCols) : SolverInit(BoundRows, BoundCols, ms, s)

SpecBound == InitBound /\ [][Next]_vars

\* OPEN_DATA[0]: the 9 x 9 board of the tests
OpenDataMines == {4, 6, 15, 16, 19, 47, 51, 68, 70, 74}

\* solve on the board of OPEN_DATA, from any of its cells
InitOpenData ==
    \E s \in Cells(9, 9) : SolverInit(9, 9, OpenDataMines, s)

SpecOpenData == InitOpenData /\ [][Next]_vars

---------------------------------------------------------------------------
(* solver/csp/mod.rs: CSPSolver::simplify_constraints, call by call.        *)
(* pc: "simplify" (line 112, the top of the outer loop), "sweep" (the test  *)
(* of line 116), "pairs" (the test of line 134), "pair" (the `for j` of     *)
(* line 141). sim holds i and j (1-based), done, to_extend (ext) and what   *)
(* the last call of update_and_remove_known_variables or simplify returned  *)
(* (ret)                                                                    *)

\* lines 112-115: `let mut done = true; let mut i = 0;`
SimplifyEnter ==
    /\ pc = "simplify"
    /\ sim' = [SimIdle EXCEPT !.i = 1]
    /\ pc' = "sweep"
    /\ UNCHANGED <<h, w, content, start, board, constraints, subsets, en, loc, result, gen, game,
                   msState>>

\* lines 116-124: one call of update_and_remove_known_variables
SweepCall ==
    /\ pc = "sweep"
    /\ sim.i <= Len(constraints)
    /\ \E u \in {UpdateAndRemoveKnownVariables(constraints[sim.i], board, content, h, w)} :
          \E s \in {Phase1SweepNext(u, [cs |-> constraints, b |-> board, i |-> sim.i,
                                        done |-> sim.done, ext |-> sim.ext])} :
             /\ constraints' = s.cs
             /\ board' = [s.b EXCEPT !.ovf = FALSE]
             /\ sim' = [sim EXCEPT !.i = s.i, !.done = s.done, !.ext = s.ext,
                                   !.ret = [kind |-> "update", some |-> u.some,
                                            new |-> u.new, value |-> FALSE]]
             /\ pc' \in PcAfter(s.b, "sweep")
    /\ UNCHANGED <<h, w, content, start, subsets, en, loc, result, gen, game,
                   msState>>

\* lines 125-132: the sweep is over; the new constraints are appended and
\* swept, or the inner loop is left
SweepEnd ==
    /\ pc = "sweep"
    /\ sim.i > Len(constraints)
    /\ \E e \in {Phase1Extend([cs |-> constraints, ext |-> sim.ext, brk |-> FALSE])} :
          /\ constraints' = e.cs
          /\ IF ~e.brk THEN pc' = "sweep" /\ sim' = [sim EXCEPT !.ext = e.ext]
             ELSE IF ~sim.done THEN pc' = "simplify" /\ sim' = SimIdle
             ELSE pc' = "pairs" /\ sim' = [sim EXCEPT !.i = 1]
    /\ UNCHANGED <<h, w, content, start, board, subsets, en, loc, result, gen, game,
                   msState>>

\* lines 134-140 and 152-154: the test of the pairwise pass, the empty
\* constraints at i are dropped
PairsHead ==
    /\ pc = "pairs"
    /\ IF sim.i > Len(constraints)
       THEN /\ pc' = IF sim.done THEN "partition" ELSE "simplify"
            /\ sim' = SimIdle
            /\ UNCHANGED constraints
       ELSE \E cs1 \in {DropEmpty(constraints, sim.i)} :
               /\ constraints' = cs1
               /\ IF sim.i <= Len(cs1)
                  THEN pc' = "pair" /\ sim' = [sim EXCEPT !.j = sim.i + 1]
                  ELSE pc' = "pairs" /\ sim' = [sim EXCEPT !.i = sim.i + 1]
    /\ UNCHANGED <<h, w, content, start, board, subsets, en, loc, result, gen, game,
                   msState>>

\* lines 141-148: one call of Constraint::simplify
PairCall ==
    /\ pc = "pair"
    /\ sim.j <= Len(constraints)
    /\ \E r \in {Simplify(constraints[sim.i], constraints[sim.j])} :
          \E s \in {PairLoopNext(r, [cs |-> constraints, j |-> sim.j, done |-> sim.done],
                                 sim.i)} :
             /\ constraints' = s.cs
             /\ sim' = [sim EXCEPT !.j = s.j, !.done = s.done,
                                   !.ret = [kind |-> "simplify", some |-> FALSE,
                                            new |-> <<>>, value |-> r[3]]]
    /\ pc' = "pair"
    /\ UNCHANGED <<h, w, content, start, board, subsets, en, loc, result, gen, game,
                   msState>>

\* line 150: `i += 1` after the `for j` loop
PairEnd ==
    /\ pc = "pair"
    /\ sim.j > Len(constraints)
    /\ sim' = [sim EXCEPT !.i = sim.i + 1]
    /\ pc' = "pairs"
    /\ UNCHANGED <<h, w, content, start, board, constraints, subsets, en, loc, result, gen,
                   game, msState>>

\* solve with simplify_constraints taken call by call, on the boards of Init
NextCalls ==
    \/ SolveStart
    \/ LoopTest
    \/ SimplifyEnter
    \/ SweepCall
    \/ SweepEnd
    \/ PairsHead
    \/ PairCall
    \/ PairEnd
    \/ Partition
    \/ EnumStep
    \/ CrossBound
    \/ Mark
    \/ Far

SpecCalls == Init /\ [][NextCalls]_vars

---------------------------------------------------------------------------
(* The solver on a game in which the player has flagged cells: Board::new   *)
(* copies every game cell, its state included, into a ledger cell of state *)
(* UNKNOWN                                                                 *)

\* boards of at most FlagCells cells with at most FlagMax flagged cells
FlagCells == 6
FlagMax == 1

\* `S::new(&ms)` on a game with the mines ms and the flags fl, then
\* solve(start_from)
InitFlagged ==
    \E d \in Dims(FlagCells) :
       \E ms \in SUBSET Cells(d[1], d[2]) :
          \E fl \in UpTo(Cells(d[1], d[2]), FlagMax) :
             \E s \in Cells(d[1], d[2]) :
                /\ h = d[1]
                /\ w = d[2]
                /\ content = MatrixFrom(d[1], d[2], ms)
                /\ start = s
                /\ msState = [i \in Cells(d[1], d[2]) |->
                                 IF i \in fl THEN "Flagged" ELSE "Closed"]
                /\ board = BoardNew(content, msState)
                /\ constraints = <<>>
                /\ subsets = <<>>
                /\ en = EnIdle
                /\ loc = LocIdle
                /\ pc = "start"
                /\ result = "none"
                /\ gen = GenIdle
                /\ game = GameIdle
                /\ sim = SimIdle

SpecFlagged == InitFlagged /\ [][Next]_vars

---------------------------------------------------------------------------
(* macros.rs, implementations/ms_matrix.rs, implementations/ms_hash.rs:     *)
(* the board generator, from_rng::<S>(difficulty, start_from, rng).          *)
(* gen is a record                                                         *)
(*   phase: "check" (the check! macro is next), "new" (the top of the loop *)
(*          of from_rng), "place" (inside randomize_mines), "solve" (inside *)
(*          solver.solve), "done" (from_rng has returned or panicked),      *)
(*   impl: "matrix" or "hash", solver: the type S,                          *)
(*   height, width, mines: the difficulty, sr, sc: start_from,              *)
(*   left: mines_left, mineset: MSHash.mines, outcome: what is returned     *)

\* the cells the start is entitled to: itself and its neighbours
SafeCells == 9

\* a faulty must_be_safe: the neighbours of the start are left out
OnlyStartSafe(s, hh, ww) == {s}

\* must_be_safe of randomize_mines
MustBeSafe(s, hh, ww) == SeqSet(IterNeighbors(s, hh, ww)) \cup {s}

\* check!, once `$difficulty.0 * $difficulty.1 - 9` is computed (limit)
CheckAgainst(limit, hh, ww, m, sr, sc) ==
    IF m >= limit THEN "TooManyMines"
    ELSE IF hh = 0 \/ ww = 0 THEN "InvalidParameters"
    ELSE IF sr >= hh \/ sc >= ww THEN "OutOfBounds"
    ELSE "pass"

\* check!: the outcomes the builds can give. The subtraction is on usize: with
\* less than 9 cells the debug build panics and the release build wraps
CheckOutcomes(hh, ww, m, sr, sc) ==
    IF hh * ww < SafeCells
    THEN {"panic", CheckAgainst(hh * ww - SafeCells + USIZE, hh, ww, m, sr, sc)}
    ELSE {CheckAgainst(hh * ww - SafeCells, hh, ww, m, sr, sc)}

\* MSHash::get_cell(..).content for every cell
HashContent(ms, hh, ww) ==
    [i \in Cells(hh, ww) |->
        IF i \in ms THEN MINE ELSE Cardinality(SeqSet(IterNeighbors(i, hh, ww)) \cap ms)]

\* no solver exists
SolverIdle ==
    /\ msState = <<>>
    /\ board = SolverNew(<<>>)
    /\ constraints = <<>>
    /\ subsets = <<>>
    /\ en = EnIdle
    /\ loc = LocIdle
    /\ pc = "idle"
    /\ result = "none"
    /\ sim = SimIdle

\* `check!(difficulty, start_from)`
GenCheck ==
    /\ gen.phase = "check"
    /\ \E o \in CheckOutcomes(gen.height, gen.width, gen.mines, gen.sr, gen.sc) :
          gen' = IF o = "pass" THEN [gen EXCEPT !.phase = "new"]
                 ELSE [gen EXCEPT !.phase = "done", !.outcome = o]
    /\ UNCHANGED <<h, w, content, start, board, constraints, subsets, en, loc, pc, result>>
    /\ UNCHANGED <<game, sim, msState>>

\* `result = Self::new_unchecked(height, width, mines, start_from)`, and the
\* locals of randomize_mines before its loop
GenNew ==
    /\ gen.phase = "new"
    /\ h' = gen.height
    /\ w' = gen.width
    /\ start' = gen.sr * gen.width + gen.sc
    /\ content' = [i \in Cells(gen.height, gen.width) |-> 0]
    /\ gen' = [gen EXCEPT !.phase = "place", !.left = gen.mines, !.mineset = {}]
    /\ UNCHANGED <<board, constraints, subsets, en, loc, pc, result>>
    /\ UNCHANGED <<game, sim, msState>>

\* MSMatrix::randomize_mines: one iteration of `while mines_left > 0`, coord
\* being what the rng gave
MatrixRandomizeMines ==
    /\ gen.phase = "place" /\ gen.impl = "matrix"
    /\ gen.left > 0
    /\ \E coord \in Cells(h, w) :
          IF content[coord] >= 0 /\ coord \notin MustBeSafe(start, h, w)
          THEN /\ content' = IncrementNeighbors([content EXCEPT ![coord] = MINE], coord, h, w)
               /\ gen' = [gen EXCEPT !.left = gen.left - 1]
          ELSE UNCHANGED <<content, gen>>
    /\ UNCHANGED <<h, w, start, board, constraints, subsets, en, loc, pc, result>>
    /\ UNCHANGED <<game, sim, msState>>

\* MSHash::randomize_mines: one iteration of `while self.mines.len() < mines`
HashRandomizeMines ==
    /\ gen.phase = "place" /\ gen.impl = "hash"
    /\ Cardinality(gen.mineset) < gen.mines
    /\ \E coord \in Cells(h, w) :
          IF coord \notin gen.mineset /\ coord \notin MustBeSafe(start, h, w)
          THEN /\ gen' = [gen EXCEPT !.mineset = gen.mineset \cup {coord}]
               /\ content' = HashContent(gen.mineset \cup {coord}, h, w)
          ELSE UNCHANGED <<content, gen>>
    /\ UNCHANGED <<h, w, start, board, constraints, subsets, en, loc, pc, result>>
    /\ UNCHANGED <<game, sim, msState>>

\* MSMatrix::from_rng: `let mut solver = S::new(&result); solver.solve(start_from)`
\* is entered (NonDeterministic::solve returns true at once)
MatrixSolve ==
    /\ gen.phase = "place" /\ gen.impl = "matrix"
    /\ gen.left = 0
    /\ gen' = [gen EXCEPT !.phase = "solve"]
    /\ IF gen.solver = "CSP"
       THEN /\ board' = SolverNew(content)
            /\ msState' = AllClosed(content)
            /\ pc' = "start"
            /\ result' = "none"
       ELSE /\ pc' = "ret"
            /\ result' = TRUE
            /\ UNCHANGED <<board, msState>>
    /\ constraints' = <<>>
    /\ subsets' = <<>>
    /\ en' = EnIdle
    /\ loc' = LocIdle
    /\ UNCHANGED <<h, w, content, start>>
    /\ UNCHANGED <<game, sim>>

\* MSMatrix::from_rng: `if solver.solve(start_from) { break }`, then
\* `Ok(result)`; on false the solver is dropped and the loop goes round
MatrixSolved ==
    /\ gen.phase = "solve"
    /\ pc = "ret"
    /\ IF result = TRUE
       THEN /\ gen' = [gen EXCEPT !.phase = "done", !.outcome = "Ok"]
            /\ UNCHANGED <<board, constraints, subsets, en, loc, pc, result, msState>>
       ELSE /\ gen' = [gen EXCEPT !.phase = "new"]
            /\ board' = SolverNew(<<>>)
            /\ msState' = <<>>
            /\ constraints' = <<>>
            /\ subsets' = <<>>
            /\ en' = EnIdle
            /\ loc' = LocIdle
            /\ pc' = "idle"
            /\ result' = "none"
    /\ UNCHANGED <<h, w, content, start>>
    /\ UNCHANGED <<game, sim>>

\* MSHash::from_rng: `Ok(result)` once randomize_mines has returned; S is
\* never used
HashReturn ==
    /\ gen.phase = "place" /\ gen.impl = "hash"
    /\ Cardinality(gen.mineset) >= gen.mines
    /\ gen' = [gen EXCEPT !.phase = "done", !.outcome = "Ok"]
    /\ UNCHANGED <<h, w, content, start, board, constraints, subsets, en, loc, pc, result>>
    /\ UNCHANGED <<game, sim, msState>>

\* the bounds of the generator's inputs: boards of at most GenCells cells
\* (a side may be 0), at most GenMines mines
GenCells == 12
GenMines == 2

\* from_rng::<S> is called: any implementation, any solver, any difficulty of
\* the bounded family, any start_from up to one row or column out of bounds
InitGen ==
    /\ \E hh \in 0..GenCells, ww \in 0..GenCells :
          /\ hh * ww <= GenCells
          /\ \E m \in 0..GenMines, r \in 0..hh, c \in 0..ww :
                \E i \in {"matrix", "hash"}, sv \in {"CSP", "NonDeterministic"} :
                   gen = [ phase |-> "check", impl |-> i, solver |-> sv,
                           height |-> hh, width |-> ww, mines |-> m,
                           sr |-> r, sc |-> c, left |-> 0, mineset |-> {},
                           outcome |-> "none" ]
    /\ h = 0
    /\ w = 0
    /\ start = 0
    /\ content = <<>>
    /\ SolverIdle
    /\ game = GameIdle

NextGen ==
    \/ GenCheck
    \/ GenNew
    \/ MatrixRandomizeMines
    \/ HashRandomizeMines
    \/ MatrixSolve
    \/ MatrixSolved
    \/ HashReturn
    \/ SolverNext

SpecGen == InitGen /\ [][NextGen]_vars

---------------------------------------------------------------------------
(* separate_constraints on every short list of live constraints             *)

\* the lists hold at most SepLen constraints over the cells 0..SepVars - 1
SepLen == 4
SepVars == 3

\* the elements of a set of cells, in increasing order
RECURSIVE SortedSeq(_)
SortedSeq(S) ==
    IF S = {} THEN <<>>
    ELSE LET m == CHOOSE x \in S : \A y \in S : x <= y
         IN <<m>> \o SortedSeq(S \ {m})

\* the constraints over the cells of S, each with one mine
LiveConstraints ==
    {[ConstraintNew EXCEPT !.vars = SortedSeq(S), !.constant = 1] :
         S \in (SUBSET (0..(SepVars - 1))) \ {{}}}

\* separate_constraints is about to be called on a list of live constraints;
\* loc remembers the list
InitSeparate ==
    /\ \E n \in 0..SepLen : constraints \in [1..n -> LiveConstraints]
    /\ loc = [input |-> constraints]
    /\ h = 1
    /\ w = SepVars
    /\ start = 0
    /\ content = [i \in Cells(1, SepVars) |-> 0]
    /\ msState = AllClosed(content)
    /\ board = SolverNew(content)
    /\ subsets = <<>>
    /\ en = EnIdle
    /\ pc = "separate"
    /\ result = "none"
    /\ gen = GenIdle
    /\ game = GameIdle
    /\ sim = SimIdle

\* `let mut subsets = self.separate_constraints()`
Separate ==
    /\ pc = "separate"
    /\ \E cp \in {Components(constraints)} :
          /\ constraints' = cp.cs
          /\ subsets' = cp.sets
    /\ pc' = "separated"
    /\ UNCHANGED <<h, w, content, start, board, en, loc, result, gen>>
    /\ UNCHANGED <<game, sim, msState>>

NextSeparate == Separate

SpecSeparate == InitSeparate /\ [][NextSeparate]_vars

---------------------------------------------------------------------------
(* Properties of CSPSolver::solve *)

\* the mines of the real board
MineSet == {i \in DOMAIN content : content[i] = MINE}

\* the cells the ledger holds as flagged mines
Marked == {i \in DOMAIN content : board.st[i] = MARKED}

\* the cells the solver has opened
Opened == {i \in DOMAIN content : board.cs[i] = "Open"}

\* C1 (soundness): from a start that is no mine, at every point of solve every
\* cell the solver has flagged (ledger state MARKED, cell state Flagged) is a
\* mine, and every cell it has opened is a Number, which the ledger holds as
\* its state
C1_Soundness ==
    (pc # "idle" /\ content[start] # MINE) =>
        \A i \in DOMAIN content :
           /\ (board.st[i] = MARKED \/ board.cs[i] = "Flagged") => content[i] = MINE
           /\ board.cs[i] = "Open" => content[i] >= 0
           /\ board.st[i] >= 0 => board.st[i] = content[i]

\* mark_mines has flagged a mine and the solver has opened cells beyond the
\* start
C1_FlaggedAndOpened ==
    /\ pc = "far"
    /\ content[start] # MINE
    /\ Marked # {}
    /\ Opened \ {start} # {}

\* the mine layouts of as many mines as the board holds that agree with every
\* number of the opened cells O
KSubsets(S, k) == {T \in SUBSET S : Cardinality(T) = k}

Consistent(O) ==
    {L \in KSubsets(DOMAIN content \ O, Cardinality(MineSet)) :
         \A o \in O : Cardinality(L \cap SeqSet(IterNeighbors(o, h, w))) = content[o]}

\* the cells a player opens by deduction alone from the opened cells O: a cell
\* is opened when no layout that agrees with the numbers and the mine count
\* has a mine there
RECURSIVE Deduced(_)
Deduced(O) ==
    LET safe == {c \in DOMAIN content \ O : \A L \in Consistent(O) : c \notin L}
    IN IF safe = {} THEN O ELSE Deduced(O \cup safe)

\* every cell that is no mine can be determined by deduction from the start
Solvable == content[start] # MINE /\ Deduced({start}) = DOMAIN content \ MineSet

\* C2 (completeness): on a board that deduction alone solves from the start,
\* solve returns true and every cell that is no mine ends Open
C2_Completeness ==
    (pc = "ret" /\ Solvable) => (result = TRUE /\ Opened = DOMAIN content \ MineSet)

\* the cells the ledger has not resolved
Unresolved ==
    Cardinality({i \in DOMAIN content : board.st[i] \in {UNKNOWN, CONSTRAINED}})

\* how far solve is from the end of the iteration of its outer loop
PhaseRank(p) ==
    CASE p = "start" -> 8
      [] p = "loop" -> 7
      [] p = "simplify" -> 6
      [] p = "partition" -> 5
      [] p = "enum" -> 4
      [] p = "bound" -> 3
      [] p = "mark" -> 2
      [] p = "far" -> 1
      [] OTHER -> 0

\* the constraints and their variables: what a pass of simplify_constraints
\* that changes no cell must shrink
ConstraintMass ==
    Len(constraints) + SumSeq([k \in 1..Len(constraints) |-> Len(constraints[k].vars)])

\* the position of the backtracking search of component en.k: for every level,
\* 0 (no variable picked), 1 (value 0, the search is below it), 2 (value 0
\* done), 3 (value 1, the search is below it), 4 (value 1 done)
SearchPos ==
    [l \in 1..Len(en.vi) |->
        IF en.vi[l] < 0 THEN 0
        ELSE 2 * (board.ta[subsets[en.k].variables[en.vi[l] + 1]] + 1)
                 - (IF l - 1 < en.level THEN 1 ELSE 0)]

\* p comes before q in the lexicographic order
LexLess(p, q) ==
    \E k \in 1..Len(p) : p[k] < q[k] /\ \A j \in 1..(k - 1) : p[j] = q[j]

\* a step of solve brings it nearer to its end: a cell is resolved, or solve
\* moves on in the iteration, or the pass of simplify_constraints has shrunk
\* the constraints, or the enumeration has moved to the next component or
\* forward in its search
Progress ==
    \/ Unresolved' < Unresolved
    \/ /\ Unresolved' = Unresolved
       /\ \/ PhaseRank(pc') < PhaseRank(pc)
          \/ pc = "simplify" /\ pc' = "simplify" /\ ConstraintMass' < ConstraintMass
          \/ pc = "enum" /\ pc' = "enum" /\ en'.k > en.k
          \/ pc = "enum" /\ pc' = "enum" /\ en'.k = en.k /\ LexLess(SearchPos, SearchPos')

\* the iteration of simplify_constraints or of enumerate_solutions that is
\* about to run either ends its loop or changes what the loop works on: no
\* iteration leaves the solver where it was
NoIdleIteration ==
    /\ pc = "simplify" =>
          \E it \in {SimplifyIteration(constraints, board, content, h, w)} :
             it.done \/ it.cs # constraints \/ it.b # board
    /\ pc = "enum" =>
          \E S \in {EnumIteration(SearchState)} :
             \/ S.fin \/ S.panic
             \/ <<S.level, S.vi, S.lc, S.ta>> # <<en.level, en.vi, en.lc, board.ta>>
    /\ pc \in {"start", "loop", "simplify", "partition", "enum", "bound", "mark",
               "far", "ret", "panic"}

\* C3 (termination): until solve returns, its next step changes its state
\* (every position of solve has a step, by the guards of the actions), and
\* every step makes progress in a well-founded order:
\* a pass of simplify_constraints that does not end the simplification
\* resolves a cell or shrinks the constraints, the enumeration of a component
\* moves forward until it ends, and an iteration of the outer loop that does
\* not leave it resolves a cell
C3_Termination ==
    /\ []NoIdleIteration
    /\ [][Progress]_vars

\* the outer loop goes round again after the cells away from every constraint
\* were opened, having been through simplification and enumeration
C3_LoopAgain ==
    /\ pc = "loop"
    /\ loc.far > 0
    /\ loc.far_max <= 0
    /\ Len(constraints) > 0
    /\ Marked # {}

\* every cell is open or a mine
FullyResolved == \A i \in DOMAIN content : board.cs[i] = "Open" \/ content[i] = MINE

C5_NeverAborts ==
    /\ pc # "panic"
    /\ \A k \in 1..Len(constraints) : constraints[k].constant >= 0
    /\ UnflaggedMines(board) >= 0
    /\ board.unflagged <= Cardinality(MineSet)
    /\ board.unknown <= h * w
    /\ board.clear <= h * w
    /\ \A k \in 1..Len(subsets) :
          /\ ~subsets[k].panic
          /\ subsets[k].min >= 0
          /\ subsets[k].max < Len(subsets[k].solutions)
    /\ pc = "ret" => result \in BOOLEAN

\* two components have been enumerated and bounded against each other and the
\* mine count, with mines still to find
C5_CrossBounded ==
    /\ pc = "mark"
    /\ Len(subsets) >= 2
    /\ loc.remaining > 0

\* C7: on the board of OPEN_DATA, solve((0, 0)) does not panic, it returns true and the cells the
\* ledger holds as MARKED when it returns are exactly the ten mines
C7_OpenDataSolved ==
    start = 0 =>
        /\ pc # "panic"
        /\ pc = "ret" =>
              (result = TRUE /\ Marked = OpenDataMines /\ Cardinality(Marked) = 10)

\* solve((0, 0)) has returned on the board of OPEN_DATA
C7_OpenDataReturned ==
    /\ start = 0
    /\ pc = "ret"
    /\ h = 9 /\ w = 9
    /\ MineSet = OpenDataMines

---------------------------------------------------------------------------
(* Properties of separate_constraints *)

\* the indices (into constraints) of the constraints of component k
ComponentOf(k) == SeqSet(subsets[k].constraints)

\* the constraints linked to those of S by a chain of constraints that share a
\* variable
RECURSIVE LinkedTo(_)
LinkedTo(S) ==
    LET more == {j \in 1..Len(constraints) :
                    \E i \in S : CoupledWith(constraints[i], constraints[j])}
    IN IF more \subseteq S THEN S ELSE LinkedTo(S \cup more)

\* how many times c occurs in the list cs
Occurrences(cs, c) == Cardinality({k \in 1..Len(cs) : cs[k] = c})

\* C8 (partitioning): separate_constraints keeps the constraints it was given
\* (it only reorders them), every constraint is in exactly one component, and
\* two constraints are in the same component if and only if a chain of
\* constraints sharing variables links them
C8_Partition ==
    pc = "separated" =>
        /\ Len(constraints) = Len(loc.input)
        /\ \A c \in SeqSet(loc.input) :
              Occurrences(constraints, c) = Occurrences(loc.input, c)
        /\ \A i \in 1..Len(constraints) :
              Cardinality({k \in 1..Len(subsets) : i \in ComponentOf(k)}) = 1
        /\ \A k \in 1..Len(subsets) :
              \A i \in ComponentOf(k) : ComponentOf(k) = LinkedTo({i})

\* a list was separated in which two constraints that share no variable are
\* linked by a third that comes after both
C8_ChainSeparated ==
    /\ pc = "separated"
    /\ Len(loc.input) >= 3
    /\ ~CoupledWith(loc.input[1], loc.input[2])
    /\ CoupledWith(loc.input[1], loc.input[3])
    /\ CoupledWith(loc.input[2], loc.input[3])
    /\ Len(subsets) = 1

---------------------------------------------------------------------------
(* Properties of the board generator *)

\* from_rng has returned Ok(board)
Produced == gen.phase = "done" /\ gen.outcome = "Ok"

\* C6: the generator returns a placement only if S's solve(start_from) has
\* returned true on it (and it goes on to the next placement when solve has
\* returned false)
C6_ReturnedOnlyIfSolved ==
    /\ Produced => (pc = "ret" /\ result = TRUE)
    /\ (gen.phase = "solve" /\ pc = "ret" /\ result = FALSE) => gen.outcome = "none"

\* C9: on a board that new / from_rng has produced the start cell is
\* Number(0), no neighbour of the start is a mine, and the board holds as many
\* mines as were asked for
C9_SafeStart ==
    Produced =>
        /\ content[start] = 0
        /\ \A n \in SeqSet(IterNeighbors(start, h, w)) : content[n] # MINE
        /\ Cardinality(MineSet) = gen.mines

\* a board with mines on it was produced
C9_ProducedWithMines ==
    /\ Produced
    /\ gen.mines = GenMines
    /\ MineSet # {}
    /\ gen.impl = "hash"

\* C10: for an in-bounds start, board creation returns Err(TooManyMines)
\* exactly when mines >= height * width - 9
C10_TooManyMines ==
    (gen.phase # "check" /\ gen.sr < gen.height /\ gen.sc < gen.width) =>
        (gen.outcome = "TooManyMines" <=> gen.mines >= gen.height * gen.width - SafeCells)

\* C11: creating a board with height = 0 or width = 0 returns
\* Err(InvalidParameters), whatever the number of mines and the start
C11_ZeroSizeInvalid ==
    (gen.phase # "check" /\ (gen.height = 0 \/ gen.width = 0))
        => gen.outcome = "InvalidParameters"

---------------------------------------------------------------------------
(* implementations/ms_matrix.rs, implementations/ms_hash.rs: playing.       *)
(* The same calls are made on an MSMatrix and on an MSHash built with the   *)
(* same dimensions, start and mines. game is a record:                      *)
(*   mstate, mopened, mflagged, mexploded, mmines: MSMatrix.cells[..].state,*)
(*          .opened, .flagged, .exploded, .mines (cells[..].content is the  *)
(*          variable content),                                              *)
(*   hopen, hflagged, hmines, hexploded: MSHash.open, .flagged, .mines,     *)
(*          .exploded,                                                      *)
(*   call, coord: the last call and its coordinate (h * w stands for a      *)
(*          coordinate out of bounds), calls: the number of calls so far,   *)
(*   mret, hret: what the last call returned on MSMatrix and on MSHash      *)

\* Result values
ErrResult(e) == [kind |-> "Err", err |-> e]
StateResult(s) == [kind |-> "CellState", state |-> s]
NoResult == [kind |-> "none"]
Panicked == [kind |-> "panic"]

\* MSMatrix::check_coordinate, MSHash::check_coordinate
CheckCoordinate(i, hh, ww) == i \in Cells(hh, ww)

\* MSMatrix::get_cell on an in-bounds coordinate
MatrixGetCell(g, cont, i) == [state |-> g.mstate[i], content |-> cont[i]]

\* MSHash::count_neighboring_mines
HashNeighboringMines(g, i, hh, ww) ==
    Cardinality({j \in SeqSet(IterNeighbors(i, hh, ww)) : j \in g.hmines})

\* MSHash::get_cell on an in-bounds coordinate
HashGetCell(g, i, hh, ww) ==
    [state |-> IF i \in g.hopen THEN "Open"
               ELSE IF i \in g.hflagged THEN "Flagged" ELSE "Closed",
     content |-> IF i \in g.hmines THEN MINE ELSE HashNeighboringMines(g, i, hh, ww)]

\* MSMatrix::toggle_flag
MatrixToggleFlag(g, i, hh, ww) ==
    IF ~CheckCoordinate(i, hh, ww) THEN [g EXCEPT !.mret = ErrResult("OutOfBounds")]
    ELSE IF g.mstate[i] = "Closed"
    THEN [g EXCEPT !.mstate[i] = "Flagged", !.mflagged = g.mflagged + 1,
                   !.mret = StateResult("Flagged")]
    ELSE IF g.mstate[i] = "Flagged"
    THEN [g EXCEPT !.mstate[i] = "Closed", !.mflagged = g.mflagged - 1,
                   !.mret = StateResult("Closed")]
    ELSE [g EXCEPT !.mret = ErrResult("AlreadyOpen")]

\* MSHash::toggle_flag
HashToggleFlag(g, i, hh, ww) ==
    IF ~CheckCoordinate(i, hh, ww) THEN [g EXCEPT !.hret = ErrResult("OutOfBounds")]
    ELSE IF i \in g.hopen THEN [g EXCEPT !.hret = ErrResult("AlreadyOpen")]
    ELSE IF i \in g.hflagged
    THEN [g EXCEPT !.hflagged = g.hflagged \ {i}, !.hret = StateResult("Flagged")]
    ELSE [g EXCEPT !.hflagged = g.hflagged \cup {i}, !.hret = StateResult("Flagged")]

\* count_neighboring_flags on an MSMatrix
MatrixNeighboringFlags(st, i, hh, ww) ==
    Cardinality({j \in SeqSet(IterNeighbors(i, hh, ww)) : st[j] = "Flagged"})

\* MSMatrix::open: one iteration of `while !queue.is_empty()`
MatrixOpenStep(t, cont, hh, ww) ==
    LET c == Head(t.q)
        closed == t.st[c] = "Closed"
        st1 == IF closed THEN [t.st EXCEPT ![c] = "Open"] ELSE t.st
        spread == /\ cont[c] # MINE
                  /\ \/ cont[c] = 0
                     \/ MatrixNeighboringFlags(st1, c, hh, ww) >= cont[c]
        more == SelectSeq(IterNeighbors(c, hh, ww), LAMBDA j : st1[j] # "Open")
    IN IF t.st[c] = "Flagged" THEN [t EXCEPT !.q = Tail(t.q)]
       ELSE [st |-> st1,
             q |-> IF spread THEN Tail(t.q) \o more ELSE Tail(t.q),
             cells_opened |-> t.cells_opened + (IF closed THEN 1 ELSE 0),
             mines_exploded |-> t.mines_exploded + (IF closed /\ cont[c] = MINE THEN 1 ELSE 0)]

\* more than the iterations the opening loop makes on a board of hh x ww
\* cells of the bounded family (at most 22 on 6 cells)
OpenFuel(hh, ww) == 1 + 8 * hh * ww

\* MSMatrix::open: the loop
MatrixOpenLoop(g, cont, i, hh, ww) ==
    While(LAMBDA t : t.q # <<>>,
          LAMBDA t : MatrixOpenStep(t, cont, hh, ww),
          [st |-> g.mstate, q |-> <<i>>, cells_opened |-> 0, mines_exploded |-> 0],
          OpenFuel(hh, ww))

\* MSMatrix::open after the loop
MatrixOpened(g, cont, i, t) ==
    [g EXCEPT !.mstate = t.st,
              !.mopened = g.mopened + t.cells_opened,
              !.mexploded = g.mexploded + t.mines_exploded,
              !.mret = [kind |-> "OpenResult",
                        cell |-> [state |-> t.st[i], content |-> cont[i]],
                        cells_opened |-> t.cells_opened,
                        mines_exploded |-> t.mines_exploded]]

\* MSMatrix::open
MatrixOpen(g, cont, i, hh, ww) ==
    IF ~CheckCoordinate(i, hh, ww) THEN [g EXCEPT !.mret = ErrResult("OutOfBounds")]
    ELSE MatrixOpened(g, cont, i, MatrixOpenLoop(g, cont, i, hh, ww))

\* count_neighboring_flags on an MSHash
HashNeighboringFlags(g, i, hh, ww) ==
    Cardinality({j \in SeqSet(IterNeighbors(i, hh, ww)) :
                    HashGetCell(g, j, hh, ww).state = "Flagged"})

\* MSHash::open: one iteration of `while !queue.is_empty()`
HashOpenStep(t, hh, ww) ==
    LET c == Head(t.q)
        cell == HashGetCell(t.g, c, hh, ww)
        closed == cell.state = "Closed"
        g1 == IF closed THEN [t.g EXCEPT !.hopen = t.g.hopen \cup {c}] ELSE t.g
        spread == /\ cell.content # MINE
                  /\ HashNeighboringFlags(g1, c, hh, ww) >= cell.content
        more == SelectSeq(IterNeighbors(c, hh, ww),
                          LAMBDA j : HashGetCell(g1, j, hh, ww).state # "Open")
    IN IF cell.state = "Flagged"
       THEN [t EXCEPT !.q = Tail(t.q), !.flags_touched = t.flags_touched + 1]
       ELSE [g |-> g1,
             q |-> IF spread THEN Tail(t.q) \o more ELSE Tail(t.q),
             cells_opened |-> t.cells_opened + (IF closed THEN 1 ELSE 0),
             mines_exploded |-> t.mines_exploded + (IF closed /\ cell.content = MINE THEN 1 ELSE 0),
             flags_touched |-> t.flags_touched]

\* MSHash::open: the loop
HashOpenLoop(g, i, hh, ww) ==
    While(LAMBDA t : t.q # <<>>,
          LAMBDA t : HashOpenStep(t, hh, ww),
          [g |-> g, q |-> <<i>>, cells_opened |-> 0, mines_exploded |-> 0,
           flags_touched |-> 0],
          OpenFuel(hh, ww))

\* MSHash::open after the loop
HashOpened(i, t, hh, ww) ==
    [t.g EXCEPT !.hexploded = t.g.hexploded + t.mines_exploded,
                !.hret = [kind |-> "OpenResult",
                          cell |-> HashGetCell(t.g, i, hh, ww),
                          cells_opened |-> t.cells_opened,
                          mines_exploded |-> t.mines_exploded,
                          flags_touched |-> t.flags_touched]]

\* MSHash::open
HashOpen(g, i, hh, ww) ==
    IF ~CheckCoordinate(i, hh, ww) THEN [g EXCEPT !.hret = ErrResult("OutOfBounds")]
    ELSE HashOpened(i, HashOpenLoop(g, i, hh, ww), hh, ww)

\* get_game_state: `self.mines - self.flagged - self.exploded` is computed on
\* usize; below zero the debug build panics and the release build wraps
GameStateOf(build, mines, flagged, opened, exploded) ==
    IF mines - flagged - exploded < 0 /\ build = "debug" THEN Panicked
    ELSE [kind |-> "GameState", flagged |-> flagged, opened |-> opened,
          mines_left |-> (mines - flagged - exploded) % USIZE]

\* MSMatrix::get_game_state
MatrixGetGameState(g, build) ==
    [g EXCEPT !.mret = GameStateOf(build, g.mmines, g.mflagged, g.mopened, g.mexploded)]

\* MSHash::get_game_state
HashGetGameState(g, build) ==
    [g EXCEPT !.hret = GameStateOf(build, Cardinality(g.hmines), Cardinality(g.hflagged),
                                   Cardinality(g.hopen), g.hexploded)]

\* the bounds of the games: boards of at most GameCells cells with at most
\* GameMines mines, at most GameCalls calls
GameCells == 6
GameMines == 2
GameCalls == 3

\* both boards exist and no call has panicked
GameActive == game.call \in {"new", "toggle_flag", "open", "get_game_state"}

\* the call `name` at coordinate i has turned the game into g
Called(g, name, i) ==
    [g EXCEPT !.call = IF Panicked \in {g.mret, g.hret} THEN "panic" ELSE name,
              !.coord = i,
              !.calls = game.calls + 1]

\* `toggle_flag(coord)` on both boards
ToggleFlag ==
    /\ GameActive /\ game.calls < GameCalls
    /\ \E i \in 0..(h * w) :
          game' = Called(HashToggleFlag(MatrixToggleFlag(game, i, h, w), i, h, w),
                         "toggle_flag", i)
    /\ UNCHANGED <<h, w, content, start, board, constraints, subsets, en, loc, pc, result, gen>>
    /\ UNCHANGED <<sim, msState>>

\* `open(coord)` on both boards
Open ==
    /\ GameActive /\ game.calls < GameCalls
    /\ \E i \in 0..(h * w) :
          game' = Called(HashOpen(MatrixOpen(game, content, i, h, w), i, h, w), "open", i)
    /\ UNCHANGED <<h, w, content, start, board, constraints, subsets, en, loc, pc, result, gen>>
    /\ UNCHANGED <<sim, msState>>

\* `get_game_state()` on both boards, in either build
GetGameState ==
    /\ GameActive /\ game.calls < GameCalls
    /\ \E build \in {"debug", "release"} :
          game' = Called(HashGetGameState(MatrixGetGameState(game, build), build),
                         "get_game_state", game.coord)
    /\ UNCHANGED <<h, w, content, start, board, constraints, subsets, en, loc, pc, result, gen>>
    /\ UNCHANGED <<sim, msState>>

\* an MSMatrix and an MSHash with the same dimensions, start and mines, every
\* cell closed
GameNew(hh, ww, ms) ==
    [ mstate |-> [i \in Cells(hh, ww) |-> "Closed"],
      mopened |-> 0, mflagged |-> 0, mexploded |-> 0, mmines |-> Cardinality(ms),
      hopen |-> {}, hflagged |-> {}, hmines |-> ms, hexploded |-> 0,
      call |-> "new", coord |-> 0, calls |-> 0,
      mret |-> NoResult, hret |-> NoResult ]

\* the boards as built from a list of mines (the From of the tests); start_from
\* is only stored by the calls of a game, so one value stands for all
InitGame ==
    /\ \E d \in Dims(GameCells) :
          \E ms \in UpTo(Cells(d[1], d[2]), GameMines) :
             /\ h = d[1]
             /\ w = d[2]
             /\ content = MatrixFrom(d[1], d[2], ms)
             /\ start = 0
             /\ game = GameNew(d[1], d[2], ms)
    /\ SolverIdle
    /\ gen = GenIdle

NextGame ==
    \/ ToggleFlag
    \/ Open
    \/ GetGameState

SpecGame == InitGame /\ [][NextGame]_vars

---------------------------------------------------------------------------
(* Properties of the games *)

\* the two results of a call are the same value (an OpenResult is compared by
\* the fields both implementations fill in)
SameResult(a, b) ==
    /\ a.kind = b.kind
    /\ a.kind = "Err" => a.err = b.err
    /\ a.kind = "CellState" => a.state = b.state
    /\ a.kind = "OpenResult" => /\ a.cell = b.cell
                                /\ a.cells_opened = b.cells_opened
                                /\ a.mines_exploded = b.mines_exploded

\* get_cell gives the same cell on both boards, at every coordinate
SameCells ==
    \A i \in Cells(h, w) : MatrixGetCell(game, content, i) = HashGetCell(game, i, h, w)

\* C12: MSMatrix and MSHash are observationally equivalent: after every
\* toggle_flag or open call of a game the call has returned the same result on
\* both and get_cell agrees on every coordinate
C12_Equivalent ==
    game.call \in {"toggle_flag", "open"} =>
        SameResult(game.mret, game.hret) /\ SameCells

\* what get_game_state must report on a board whose cells are cell[i], with
\* `mines` mines
GameStateCorrect(r, cell, mines) ==
    /\ r.kind = "GameState"
    /\ r.flagged = Cardinality({i \in Cells(h, w) : cell[i].state = "Flagged"})
    /\ r.opened = Cardinality({i \in Cells(h, w) : cell[i].state = "Open"})
    /\ r.mines_left = mines - r.flagged
                      - Cardinality({i \in Cells(h, w) : cell[i].state = "Open"
                                                         /\ cell[i].content = MINE})
    /\ r.mines_left >= 0

\* C13: after any sequence of toggle_flag and open calls, get_game_state
\* reports the number of Flagged cells, the number of Open cells and
\* mines_left = mines - flagged - exploded mines, a non-negative count
C13_GameState ==
    /\ game.call # "panic"
    /\ game.call = "get_game_state" =>
          /\ GameStateCorrect(game.mret, [i \in Cells(h, w) |-> MatrixGetCell(game, content, i)],
                              MinesOf(content))
          /\ GameStateCorrect(game.hret, [i \in Cells(h, w) |-> HashGetCell(game, i, h, w)],
                              MinesOf(content))

\* toggle_flag at i, which found the cell in state old, returned r and left
\* the cell in state new
ToggleCorrect(old, r, new) ==
    /\ old = "Closed" => r = StateResult("Flagged") /\ new = "Flagged"
    /\ old = "Flagged" => r = StateResult("Closed") /\ new = "Closed"
    /\ old = "Open" => r = ErrResult("AlreadyOpen") /\ new = "Open"

\* C14: toggle_flag on an in-bounds cell returns the new state of the cell
\* (Closed becomes Flagged, Flagged becomes Closed) and an Open cell gives
\* Err(AlreadyOpen) with the board unchanged, on both implementations
C14_ToggleReturnsNewState ==
    [][(game'.call = "toggle_flag" /\ CheckCoordinate(game'.coord, h, w)) =>
          /\ ToggleCorrect(game.mstate[game'.coord], game'.mret, game'.mstate[game'.coord])
          /\ ToggleCorrect(HashGetCell(game, game'.coord, h, w).state, game'.hret,
                           HashGetCell(game', game'.coord, h, w).state)
          /\ game'.mret.kind = "Err" =>
                /\ game'.mstate = game.mstate
                /\ <<game'.hopen, game'.hflagged>> = <<game.hopen, game.hflagged>>]_vars

---------------------------------------------------------------------------
(* implementations/ms_matrix.rs: swap_cells, as the test swap_mines drives  *)
(* it. game is a record: call ("from" once the board is built, "swap_cells" *)
(* after a swap), old, new: the arguments of the last swap, mines: the      *)
(* field MSMatrix.mines, layout: the mines the board must now hold (the     *)
(* list the test builds the expected board from), swaps: the swaps so far   *)

\* Number(n - 1) on u8
DecU8(n) == (n - 1) % 256

\* MSMatrix::decrement_neighbors
DecrementNeighbors(cont, i, hh, ww) ==
    LET nb == SeqSet(IterNeighbors(i, hh, ww))
    IN [j \in DOMAIN cont |-> IF j \in nb /\ cont[j] >= 0 THEN DecU8(cont[j]) ELSE cont[j]]

\* count_neighboring_mines(self, coord)
CountNeighboringMines(cont, i, hh, ww) ==
    Cardinality({j \in SeqSet(IterNeighbors(i, hh, ww)) : cont[j] = MINE})

\* a faulty extract_mine: the neighbours keep their numbers
ExtractMineOnly(cont, i, hh, ww) ==
    [cont EXCEPT ![i] = CountNeighboringMines(cont, i, hh, ww)]

\* MSMatrix::extract_mine
ExtractMine(cont, i, hh, ww) ==
    [DecrementNeighbors(cont, i, hh, ww) EXCEPT ![i] = CountNeighboringMines(cont, i, hh, ww)]

\* MSMatrix::swap_cells
SwapCells(cont, old, new, hh, ww) ==
    IncrementNeighbors([ExtractMine(cont, old, hh, ww) EXCEPT ![new] = MINE], new, hh, ww)

\* the bounds of the swaps: boards of at most SwapBoard cells with at most
\* SwapMines mines, at most MaxSwaps swaps
SwapBoard == 9
SwapMines == 3
MaxSwaps == 2

\* `ms.swap_cells(*from, *to)` of the test, from a mine to a cell that is not
\* one (what the assertions of swap_cells require and shuffle ensures)
SwapMinesStep ==
    /\ game.call \in {"from", "swap_cells"}
    /\ game.swaps < MaxSwaps
    /\ \E old \in Cells(h, w), new \in Cells(h, w) :
          /\ content[old] = MINE
          /\ content[new] # MINE
          /\ content' = SwapCells(content, old, new, h, w)
          /\ game' = [game EXCEPT !.call = "swap_cells", !.old = old, !.new = new,
                                  !.layout = (game.layout \ {old}) \cup {new},
                                  !.swaps = game.swaps + 1]
    /\ UNCHANGED <<h, w, start, board, constraints, subsets, en, loc, pc, result, gen>>
    /\ UNCHANGED <<sim, msState>>

\* `let mut ms: MSMatrix = (*starting_point).into()`
InitSwap ==
    /\ \E d \in Dims(SwapBoard) :
          \E ms \in UpTo(Cells(d[1], d[2]), SwapMines) :
             /\ h = d[1]
             /\ w = d[2]
             /\ content = MatrixFrom(d[1], d[2], ms)
             /\ start = 0
             /\ game = [call |-> "from", old |-> 0, new |-> 0,
                        mines |-> Cardinality(ms), layout |-> ms, swaps |-> 0]
    /\ SolverIdle
    /\ gen = GenIdle

NextSwap == SwapMinesStep

SpecSwap == InitSwap /\ [][NextSwap]_vars

\* C15: after swap_cells(old_mine, new_mine), old_mine a mine and new_mine not,
\* adjacent or not, the board equals the board built from the new mine set:
\* as many mines as before and in every other cell the number of its
\* neighbouring mines
C15_SwapEqualsRebuilt ==
    game.call = "swap_cells" =>
        /\ content = MatrixFrom(h, w, game.layout)
        /\ game.mines = Cardinality(game.layout)
        /\ MinesOf(content) = game.mines
        /\ \A i \in Cells(h, w) :
              content[i] # MINE => content[i] = CountNeighboringMines(content, i, h, w)

\* two swaps were made, the last one between adjacent cells that have other
\* mines around
C15_SwappedAdjacent ==
    /\ game.call = "swap_cells"
    /\ game.swaps = 2
    /\ game.new \in SeqSet(IterNeighbors(game.old, h, w))
    /\ content[game.old] >= 2

---------------------------------------------------------------------------
(* Properties of the deduction loop, the enumeration and the bounds *)

\* mark_mines has flagged at least one cell since `remaining` was read
FlaggedThisIteration == AsIsize(UnflaggedMines(board)) < AsIsize(loc.remaining)

\* C16: the loop stops and returns false only in an iteration that changed
\* nothing: whenever mark_mines has flagged a cell in the iteration and the
\* board is not fully resolved, another iteration is run
C16_MarkingLoopsAgain ==
    [][(pc = "far" /\ FlaggedThisIteration /\ ~BoardDone(board, content))
          => pc' # "ret"]_vars

\* the 0/1 assignments (as sets of mines) to the variables of component ss
\* that satisfy every constraint of the component
Satisfying(ss) ==
    {A \in SUBSET SeqSet(ss.variables) :
        \A k \in 1..Len(ss.constraints) :
           Cardinality(A \cap SeqSet(constraints[ss.constraints[k]].vars))
               = constraints[ss.constraints[k]].constant}

\* the satisfying assignments with exactly k mines
WithMines(ss, k) == {A \in Satisfying(ss) : Cardinality(A) = k}

\* solutions, mine_count, min and max of the component are the exact counts
CountsExact(ss) ==
    /\ \A A \in Satisfying(ss) : Cardinality(A) < Len(ss.solutions)
    /\ \A k \in 0..(Len(ss.solutions) - 1) :
          /\ ss.solutions[k + 1] = Cardinality(WithMines(ss, k))
          /\ \A j \in 1..Len(ss.variables) :
                ss.mines[k + 1][j]
                    = Cardinality({A \in WithMines(ss, k) : ss.variables[j] \in A})
    /\ Satisfying(ss) # {}
    /\ \A A \in Satisfying(ss) : ss.min <= Cardinality(A) /\ Cardinality(A) <= ss.max
    /\ WithMines(ss, ss.min) # {}
    /\ WithMines(ss, ss.max) # {}

\* C17: after enumerate_solutions on a component, solutions[k] is the number
\* of assignments satisfying every constraint of the component with exactly k
\* mines, mine_count[k][v] the number of those in which v is a mine, min and
\* max the smallest and largest k with a nonzero count: every satisfying
\* assignment is counted exactly once
C17_EnumerationCounts ==
    pc = "bound" => \A c \in 1..Len(subsets) : CountsExact(subsets[c])

\* the enumeration has finished on a component of at least three variables
\* that has solutions with different numbers of mines
C17_EnumeratedRange ==
    /\ pc = "bound"
    /\ \E c \in 1..Len(subsets) :
          /\ Len(subsets[c].variables) >= 3
          /\ subsets[c].min < subsets[c].max
          /\ subsets[c].solutions[subsets[c].min + 1] >= 2

\* the cells the ledger b holds as flagged mines
MarkedIn(b) == {i \in DOMAIN b.st : b.st[i] = MARKED}

\* the solutions of component ss that survive in its [min, max] range
Surviving(ss) ==
    {A \in Satisfying(ss) : ss.min <= Cardinality(A) /\ Cardinality(A) <= ss.max}

\* the variables of ss that are mines in every surviving solution
MineInEvery(ss) == {v \in SeqSet(ss.variables) : \A A \in Surviving(ss) : v \in A}

\* C18: mark_mines flags a variable of a component exactly when the variable
\* is a mine in every solution surviving in [min, max], and flags it once: the
\* unflagged-mine counter goes down by one per flagged cell
C18_MarkMinesExact ==
    [][(pc = "mark" /\ pc' = "far") =>
          LET must == UNION {MineInEvery(subsets[c]) : c \in 1..Len(subsets)}
          IN /\ must \cap MarkedIn(board) = {}
             /\ MarkedIn(board') = MarkedIn(board) \cup must
             /\ \A i \in must : board'.cs[i] = "Flagged"
             /\ board'.unflagged = board.unflagged - Cardinality(must)]_vars

\* mark_mines has just flagged a cell, leaving other cells unresolved
C18_FlaggedByMarkMines ==
    /\ pc = "far"
    /\ FlaggedThisIteration
    /\ Marked # {}
    /\ Unresolved > 0

\* component ss has become ss2 by reduce_min_max(lo, hi): min raised to lo,
\* max lowered to hi, the counts outside the new range zeroed
ReducedTo(ss, ss2, lo, hi) ==
    /\ ss2.min = Max2(ss.min, lo)
    /\ ss2.max = Min2(ss.max, hi)
    /\ \A k \in 0..(Len(ss.solutions) - 1) :
          ss2.solutions[k + 1] = IF ss2.min <= k /\ k <= ss2.max THEN ss.solutions[k + 1] ELSE 0

\* the cross-bound step has reduced every component i with
\* reduce_min_max(remaining - (assumed + sum of the max of the others),
\*                remaining - (sum of the min of the others)),
\* the others being the components as they are when i is reduced (those
\* before i already reduced); before and after are the lists of components
\* before and after the step
CrossBoundedWith(before, after, remaining, assumed) ==
    /\ Len(after) = Len(before)
    /\ \A i \in 1..Len(before) :
          LET other(j) == IF j < i THEN after[j] ELSE before[j]
              sumMax == SumSeq([j \in 1..Len(before) |-> IF j = i THEN 0 ELSE other(j).max])
              sumMin == SumSeq([j \in 1..Len(before) |-> IF j = i THEN 0 ELSE other(j).min])
          IN ReducedTo(before[i], after[i], remaining - (assumed + sumMax), remaining - sumMin)

\* C19: in the cross-bound step each component i is reduced with
\* reduce_min_max(lo, hi), lo = remaining - (sum of the max of every other
\* component), hi = remaining - (sum of the min of every other component),
\* remaining being the unflagged-mine count of the ledger
C19_CrossBoundArguments ==
    [][(pc = "bound" /\ pc' = "mark") =>
          CrossBoundedWith(subsets, subsets', UnflaggedMines(board), 0)]_vars

\* C19, amended: lo = remaining - (far + sum of the max of every other
\* component), far being the number of UNKNOWN cells of the ledger; hi as
\* stated
C19_CrossBoundArgumentsWithFar ==
    [][(pc = "bound" /\ pc' = "mark") =>
          CrossBoundedWith(subsets, subsets', UnflaggedMines(board),
                           AsIsize(board.unknown))]_vars

\* the cross-bound step has raised the min of a component (it holds counts
\* for fewer mines than min) while cells were left in the far region
C19_MinRaised ==
    /\ pc = "mark"
    /\ loc.far > 0
    /\ \E c \in 1..Len(subsets) :
          \E k \in 0..(subsets[c].min - 1) :
             \E j \in 1..Len(subsets[c].variables) : subsets[c].mines[k + 1][j] > 0

\* the mines among the variables of component ss
TrueMines(ss) == Cardinality(SeqSet(ss.variables) \cap MineSet)

\* C20: after cross-bounding, the sum of the min of all components does not
\* exceed the unflagged-mine count of the ledger (far_max, the mines left for
\* the far region, is not negative), and every component has min <= max with
\* the true number of mines among its variables inside [min, max]
C20_CrossBoundConsistent ==
    pc = "mark" =>
        /\ loc.far_max = loc.remaining - SumSeq([c \in 1..Len(subsets) |-> subsets[c].min])
        /\ loc.far_max >= 0
        /\ \A c \in 1..Len(subsets) :
              /\ subsets[c].min <= subsets[c].max
              /\ subsets[c].min <= TrueMines(subsets[c])
              /\ TrueMines(subsets[c]) <= subsets[c].max

\* the cross-bound step has run on two components or more and has raised the
\* min of one of them
C20_BoundedTogether ==
    /\ pc = "mark"
    /\ Len(subsets) >= 2
    /\ \E c \in 1..Len(subsets) :
          \E k \in 0..(subsets[c].min - 1) :
             \E j \in 1..Len(subsets[c].variables) : subsets[c].mines[k + 1][j] > 0

---------------------------------------------------------------------------
(* Properties of the far region, the constraints and the ledger *)

\* the cells the ledger b holds as UNKNOWN
UnknownIn(b) == {i \in DOMAIN b.st : b.st[i] = UNKNOWN}

\* the constraint of the opened number i when the UNKNOWN cells U are opened in
\* row-major order on ledger b: its variables are the neighbours of i that are
\* neither opened nor flagged when i is reached
BuiltFrom(c, i, U, b) ==
    LET nb == SeqSet(IterNeighbors(i, h, w))
    IN /\ SeqSet(c.vars) = {j \in nb : \/ b.st[j] = CONSTRAINED
                                       \/ (j \in U /\ j > i)}
       /\ Len(c.vars) = Cardinality(SeqSet(c.vars))
       /\ c.constant = content[i] - Cardinality({j \in nb : b.st[j] = MARKED})

Held == constraints \o sim.ext

\* constraint c is conserved: its constant is the number of mines among its
\* variables, which lies between 0 and the number of its variables
Conserved(c) ==
    /\ 0 <= c.constant
    /\ c.constant <= Len(c.vars)
    /\ c.constant = Cardinality({k \in 1..Len(c.vars) : content[c.vars[k]] = MINE})

\* C22 (constraint conservation): from a start that is no mine, after every
\* call of update_and_remove_known_variables and of simplify (and at every
\* other point of solve), every constraint that still has variables has
\* 0 <= constant <= number of variables, the constant being the real number of
\* mines among its variables
C22_ConstraintConservation ==
    content[start] # MINE =>
        \A k \in 1..Len(Held) : ~IsEmpty(Held[k]) => Conserved(Held[k])

\* simplify has just reduced a constraint, and a constraint with a mine among
\* several variables is held
C22_SimplifiedWithMines ==
    /\ pc = "pair"
    /\ content[start] # MINE
    /\ sim.ret.kind = "simplify"
    /\ sim.ret.value
    /\ \E k \in 1..Len(constraints) :
          Len(constraints[k].vars) >= 2 /\ constraints[k].constant >= 1

\* the cells whose resolution the ledger b knows
KnownIn(b) == {i \in DOMAIN b.st : b.st[i] \notin {UNKNOWN, CONSTRAINED}}

\* constraint cn is the one built from the number of the opened cell v, v being
\* one of the cells rem opened together on ledger b: its variables are the
\* closed unflagged neighbours of v (those of rem as far as not yet opened),
\* its constant the number of v less its flagged neighbours
BuiltFromOpened(cn, v, rem, b) ==
    LET nb == SeqSet(IterNeighbors(v, h, w))
    IN /\ SeqSet(cn.vars) \subseteq nb
       /\ SeqSet(cn.vars) \ rem = (nb \ KnownIn(b)) \ rem
       /\ cn.constant = content[v] - Cardinality({j \in nb : b.st[j] = MARKED})

\* what update_and_remove_known_variables does to constraint c on ledger b:
\* c2 and b2 are the constraint and the ledger after the call, ret what it
\* returned
UpdateDescribed(c, c2, b, b2, ret) ==
    LET rem == SeqSet(c.vars) \ KnownIn(b)
        k   == c.constant - Cardinality({v \in SeqSet(c.vars) : b.st[v] = MARKED})
    IN CASE rem = {} ->
                /\ ~ret.some
                /\ b2 = b
                /\ c2.vars = <<>> /\ c2.constant = k
         [] rem # {} /\ k = 0 ->
                /\ ret.some
                /\ \A v \in rem : b2.cs[v] = "Open" /\ b2.st[v] = content[v]
                /\ \A v \in DOMAIN b.st \ rem :
                      /\ b2.cs[v] = b.cs[v]
                      /\ b2.st[v] \in {b.st[v], CONSTRAINED}
                /\ b2.unflagged = b.unflagged
                /\ Len(ret.new) = Cardinality(rem)
                /\ \A v \in rem : \E n \in 1..Len(ret.new) :
                      BuiltFromOpened(ret.new[n], v, rem, b)
                /\ \A n \in 1..Len(ret.new) : \E v \in rem :
                      BuiltFromOpened(ret.new[n], v, rem, b)
         [] rem # {} /\ k # 0 /\ k = Cardinality(rem) ->
                /\ ret.some
                /\ ret.new = <<>>
                /\ \A v \in rem : b2.cs[v] = "Flagged" /\ b2.st[v] = MARKED
                /\ \A v \in DOMAIN b.st \ rem : b2.cs[v] = b.cs[v] /\ b2.st[v] = b.st[v]
                /\ b2.unflagged = b.unflagged - Cardinality(rem)
         [] OTHER ->
                /\ ~ret.some
                /\ b2 = b
                /\ SeqSet(c2.vars) = rem /\ Len(c2.vars) = Cardinality(rem)
                /\ c2.constant = k

\* C23: update_and_remove_known_variables drops every variable whose
\* resolution is known, taking 1 from the constant per MARKED one; then, with
\* no variable left it returns None and changes no cell; with constant 0 it
\* opens every remaining variable and returns the constraints built from the
\* opened numbers; with constant equal to the number of remaining variables it
\* flags each of them and returns an empty list; otherwise it returns None,
\* changes no cell and keeps the remaining variables. No other constraint is
\* touched
C23_UpdateAndRemove ==
    [][(pc = "sweep" /\ sim.i <= Len(constraints)) =>
          /\ sim'.ret.kind = "update"
          /\ UpdateDescribed(constraints[sim.i], constraints'[sim.i], board, board', sim'.ret)
          /\ Len(constraints') = Len(constraints)
          /\ \A m \in 1..Len(constraints) : m # sim.i => constraints'[m] = constraints[m]]_vars

\* a call has just opened two variables or more and returned their
\* constraints, after an earlier one has flagged a mine
C23_OpenedAfterFlag ==
    /\ pc = "sweep"
    /\ sim.ret.kind = "update"
    /\ sim.ret.some
    /\ Len(sim.ret.new) >= 2
    /\ Marked # {}

\* constraint sup has become sup2 by losing the variables of sub and its
\* constant
ReducedBy(sup, sup2, sub) ==
    /\ SeqSet(sup2.vars) = SeqSet(sup.vars) \ SeqSet(sub.vars)
    /\ Len(sup2.vars) = Len(sup.vars) - Len(sub.vars)
    /\ sup2.constant = sup.constant - sub.constant

\* what simplify(a, b) does: a2 and b2 are the constraints after the call,
\* ret the value returned
SimplifyDescribed(a, b, a2, b2, ret) ==
    /\ ret = (a2 # a \/ b2 # b)
    /\ CASE SeqSet(b.vars) # {} /\ SeqSet(b.vars) \subseteq SeqSet(a.vars)
              /\ Len(a.vars) >= Len(b.vars) ->
                ReducedBy(a, a2, b) /\ b2 = b /\ ret
         [] SeqSet(a.vars) # {} /\ SeqSet(a.vars) \subseteq SeqSet(b.vars)
              /\ Len(a.vars) < Len(b.vars) ->
                ReducedBy(b, b2, a) /\ a2 = a /\ ret
         [] OTHER -> a2 = a /\ b2 = b /\ ~ret

\* C24: simplify(a, b) returns true exactly when it changed a constraint: when
\* the variables of one are a subset of the other's, the superset loses those
\* variables and its constant goes down by the subset's constant, the subset
\* staying as it is; when neither is a subset of the other or nothing can be
\* removed, both stay as they are and false is returned
C24_SimplifyReturnsChange ==
    [][(pc = "pair" /\ sim.j <= Len(constraints)) =>
          SimplifyDescribed(constraints[sim.i], constraints[sim.j],
                            constraints'[sim.i], constraints'[sim.j], sim'.ret.value)]_vars

\* the cells the ledger holds as CONSTRAINED
ConstrainedCells == {i \in DOMAIN board.st : board.st[i] = CONSTRAINED}

\* the constraints of the list cs that have cell i among their variables
Holding(cs, i) == {k \in 1..Len(cs) : i \in SeqSet(cs[k].vars)}

\* C25: at every point of solve, each cell whose resolution is CONSTRAINED is
\* a variable of exactly one live constraint
C25_ExactlyOneConstraint ==
    \A i \in ConstrainedCells : Cardinality(Holding(constraints, i)) = 1

\* C25, amended: at every point of solve, each cell whose resolution is
\* CONSTRAINED is a variable of at least one constraint the solver holds (in
\* the live list, or returned by update_and_remove_known_variables and about
\* to be appended to it)
C25_AtLeastOneConstraint ==
    \A i \in ConstrainedCells : Holding(Held, i) # {}

\* a CONSTRAINED cell is a variable of two live constraints that the pairwise
\* pass has left as they are
C25_SharedVariable ==
    /\ pc = "partition"
    /\ \E i \in ConstrainedCells : Cardinality(Holding(constraints, i)) >= 2

\* C26: Board::open on a coordinate whose game cell is Flagged returns MARKED
\* and leaves the resolution of the cell, the unknown counter, the
\* unflagged-mine counter and every boundary level as they are; on any other
\* cell it sets the resolution to the number of the cell or to MINE and
\* returns it. Stated of the call `self.board.open(start_from)` of solve,
\* which returns false at once exactly when MINE was returned, and builds no
\* constraint when MARKED was returned
C26_OpenFlaggedFrame ==
    [][pc = "start" =>
          IF board.cs[start] = "Flagged"
          THEN /\ pc' # "ret"
               /\ board'.st[start] = board.st[start]
               /\ board'.unknown = board.unknown
               /\ board'.unflagged = board.unflagged
               /\ board'.bl = board.bl
          ELSE /\ board'.st[start] = content[start]
               /\ (pc' = "ret") = (content[start] = MINE)]_vars

---------------------------------------------------------------------------
(* Properties of a component, the enumeration's frame and the game board *)

\* the sum of the constants of the constraints of component ss, read in cs
SumOfConstants(cs, ss) ==
    SumSeq([k \in 1..Len(ss.constraints) |-> cs[ss.constraints[k]].constant])

\* the 0/1 assignments (as sets of mines) to the variables of component ss
\* that satisfy every constraint of the component, read in cs
SatisfyingIn(cs, ss) ==
    {A \in SUBSET SeqSet(ss.variables) :
        \A k \in 1..Len(ss.constraints) :
           Cardinality(A \cap SeqSet(cs[ss.constraints[k]].vars))
               = cs[ss.constraints[k]].constant}

\* the Partition step has built the components anew
ComponentsBuilt == pc = "partition" /\ pc' # "ret"

\* C27 as stated: a freshly constructed component has min equal to the sum
\* of its constraints' constants, and no assignment that satisfies all its
\* constraints has fewer mines than that sum
C27_SumIsLowerBound ==
    [][ComponentsBuilt =>
          \A k \in 1..Len(subsets') :
             /\ GetMin(subsets'[k]) = SumOfConstants(constraints', subsets'[k])
             /\ \A A \in SatisfyingIn(constraints', subsets'[k]) :
                   Cardinality(A) >= SumOfConstants(constraints', subsets'[k])]_vars

\* C27: a freshly constructed component has min equal to the sum of its
\* constraints' constants, and no assignment that satisfies all its
\* constraints has more mines than that sum (a variable shared by two
\* constraints is counted twice in the sum)
C27_SumIsUpperBound ==
    [][ComponentsBuilt =>
          \A k \in 1..Len(subsets') :
             /\ GetMin(subsets'[k]) = SumOfConstants(constraints', subsets'[k])
             /\ \A A \in SatisfyingIn(constraints', subsets'[k]) :
                   Cardinality(A) <= SumOfConstants(constraints', subsets'[k])]_vars

\* the enumeration of a component is under way, its min is still the sum of
\* the constants, and an assignment with fewer mines satisfies its constraints
C27_FewerThanSum ==
    /\ pc = "enum"
    /\ GetMin(subsets[en.k]) = SumOfConstants(constraints, subsets[en.k])
    /\ \E A \in SatisfyingIn(constraints, subsets[en.k]) :
          Cardinality(A) < GetMin(subsets[en.k])

\* the step leaves the resolutions, the counters and every constraint's
\* variables and constant as they are
EnumerationFrame ==
    /\ board'.st = board.st
    /\ board'.unknown = board.unknown
    /\ board'.unflagged = board.unflagged
    /\ Len(constraints') = Len(constraints)
    /\ \A k \in 1..Len(constraints) :
          /\ constraints'[k].vars = constraints[k].vars
          /\ constraints'[k].constant = constraints[k].constant

\* the step is the last of enumerate_solutions on component en.k
EnumerationReturns == pc = "enum" /\ (pc' = "bound" \/ (pc' = "enum" /\ en'.k # en.k))

\* C28: a step of enumerate_solutions leaves every ledger cell's resolution,
\* the unknown and unflagged-mine counters and every constraint's variables
\* and constant unchanged, and when the call returns every variable of the
\* component has its trial assignment unassigned (-1) again
C28_EnumerationFrame ==
    [][pc = "enum" =>
          /\ EnumerationFrame
          /\ EnumerationReturns =>
                \A j \in 1..Len(subsets[en.k].variables) :
                   board'.ta[subsets[en.k].variables[j]] = 0 - 1]_vars

\* every component has been enumerated, solutions were recorded from trial
\* assignments, and no cell holds a trial assignment
C28_EnumeratedAndReset ==
    /\ pc = "bound"
    /\ \E k \in 1..Len(subsets) : GetMax(subsets[k]) > 0
    /\ \A i \in DOMAIN board.ta : board.ta[i] = 0 - 1

\* a cell state of a game agrees with a resolution of the ledger: Open with
\* the content of an opened cell (Clear(n), or MINE for the mine opened at
\* the start), Flagged with MARKED, Closed with UNKNOWN or CONSTRAINED
StateMatches(s, r) ==
    /\ (s = "Open") = (r >= MINE)
    /\ (s = "Flagged") = (r = MARKED)
    /\ (s = "Closed") = (r \in {UNKNOWN, CONSTRAINED})

\* C29 as stated: at every point the state of each cell of the game board
\* handed to the solver matches the ledger's resolution of the coordinate
C29_GameBoardMatches ==
    \A i \in DOMAIN msState : StateMatches(msState[i], board.st[i])

\* no cell of the game board handed to the solver was open or flagged
HandedClosed == \A j \in DOMAIN msState : msState[j] = "Closed"

\* C29: the game board handed to the solver is only read and never changes;
\* every open and flag of the ledger is performed on the ledger's own copy
\* of the cells: a resolution that is a number has an Open copy, a MARKED
\* resolution a Flagged copy, and a Closed copy has resolution UNKNOWN or
\* CONSTRAINED; when the game board was handed over with every cell Closed,
\* a cell of the copy leaves Closed at most once and at every point the state
\* of each cell of the copy matches the resolution of the coordinate
C29_CopyMatches ==
    /\ [][msState' = msState]_vars
    /\ [](\A i \in DOMAIN msState :
             /\ board.st[i] >= 0 => board.cs[i] = "Open"
             /\ board.st[i] = MARKED => board.cs[i] = "Flagged"
             /\ board.cs[i] = "Closed" => board.st[i] \in {UNKNOWN, CONSTRAINED})
    /\ [][HandedClosed =>
             \A i \in DOMAIN msState :
                board'.cs[i] # board.cs[i] => board.cs[i] = "Closed"]_vars
    /\ [](HandedClosed =>
             \A i \in DOMAIN msState : StateMatches(board.cs[i], board.st[i]))

\* the ledger has opened a cell and flagged another that were both Closed on
\* the game board, which still holds them as Closed
C29_OpenedAndFlaggedCopy ==
    /\ \E i \in DOMAIN msState :
          msState[i] = "Closed" /\ board.cs[i] = "Open" /\ board.st[i] >= 0
    /\ \E i \in DOMAIN msState :
          msState[i] = "Closed" /\ board.cs[i] = "Flagged" /\ board.st[i] = MARKED

\* the cells covered by a component: the variables of the components sets
Covered(sets) == UNION {SeqSet(sets[k].variables) : k \in 1..Len(sets)}

\* the cells the ledger has neither opened nor flagged
UnresolvedCells == {i \in DOMAIN board.st : board.st[i] \in {UNKNOWN, CONSTRAINED}}

\* C30: whenever simplify_constraints has returned (pc = "partition"), no
\* live constraint is empty, every variable of a live constraint is
\* CONSTRAINED, every CONSTRAINED cell is a variable of a live constraint, the
\* UNKNOWN cells are the unresolved cells in no live constraint and
\* board.unknown is their number; the components then built cover exactly the
\* CONSTRAINED cells
C30_VariablesAreConstrained ==
    [][pc = "partition" =>
          /\ \A k \in 1..Len(constraints) :
                /\ ~IsEmpty(constraints[k])
                /\ \A v \in SeqSet(constraints[k].vars) : board.st[v] = CONSTRAINED
          /\ \A i \in ConstrainedCells : Holding(constraints, i) # {}
          /\ {i \in DOMAIN board.st : board.st[i] = UNKNOWN}
                = {i \in UnresolvedCells : Holding(constraints, i) = {}}
          /\ board.unknown = Cardinality({i \in DOMAIN board.st : board.st[i] = UNKNOWN})
          /\ pc' # "ret" => Covered(subsets') = ConstrainedCells]_vars

\* the components were just built, some cells are covered by them and some
\* cells are left UNKNOWN
C30_CoveredAndFar ==
    /\ pc = "enum"
    /\ Covered(subsets) # {}
    /\ Covered(subsets) = ConstrainedCells
    /\ \E i \in DOMAIN board.st : board.st[i] = UNKNOWN

====
